---- MODULE Spec2Model ----
(***************************************************************************)
(* Model of package ferrors (src/ferrors/error.go): error values with a    *)
(* code, an optional detail, optional fields and captured stacks, the wrap *)
(* combinators that accumulate messages and stacks on a shared value, and  *)
(* the conversion of an error to a gRPC status.                            *)
(*                                                                         *)
(* Error values live in a heap: a sequence of objects, a pointer being an  *)
(* index into it and Nil the nil error.  Wrap, Wrapf and WithStack mutate  *)
(* a wrapped object in place, so pointer identity is part of the state.    *)
(*                                                                         *)
(* The model follows one failure: its root cause is created first, by a    *)
(* constructor of the package or by another package, and every later value *)
(* is layered over it.  No operation of the package takes two errors, so   *)
(* failures with different root causes do not interact.                    *)
(*                                                                         *)
(* Two more packages are modelled, each with a specification of its own    *)
(* over the same initial state: flog (src/flog/flog.go), the logging       *)
(* function variables and the package's zap loggers, in SpecFlog, and      *)
(* sentrygrpc (src/sentrygrpc), the gRPC server interceptors that report   *)
(* to Sentry, in SpecSentry.                                               *)
(*                                                                         *)
(* Further specifications: SpecRace, concurrent Wrap calls on one wrapped  *)
(* value; SpecPool, concurrent Error() calls and the buffer pool; SpecHttp,*)
(* the request logger of src/http/middleware; SpecGcp, the access-token    *)
(* functions of package gcp; SpecConfig, loadConfig of src/fconfig and its *)
(* secret-manager client.                                                  *)
(***************************************************************************)
EXTENDS Integers, Sequences, FiniteSets, TLC

(***************************************************************************)
(* Error codes: ErrorCode is a uint32 holding a grpc codes.Code.           *)
(***************************************************************************)
OK == 0
Unknown == 2
InvalidArgument == 3
NotFound == 5
AlreadyExists == 6
PermissionDenied == 7
FailedPrecondition == 9
OutOfRange == 11
Unimplemented == 12
Internal == 13
Unavailable == 14
Unauthenticated == 16

\* the codes the package names
ErrorCodes ==
    { Unknown, InvalidArgument, NotFound, AlreadyExists, PermissionDenied,
      FailedPrecondition, OutOfRange, Unimplemented, Internal, Unavailable,
      Unauthenticated }

\* the codes WithCode is called with: the named ones and the zero value
Codes ==
    { OK, Unknown, InvalidArgument, NotFound, AlreadyExists, PermissionDenied,
      FailedPrecondition, OutOfRange, Unimplemented, Internal, Unavailable,
      Unauthenticated }

(***************************************************************************)
(* Bounds of the model.                                                    *)
(***************************************************************************)
MaxLayers == 2

(***************************************************************************)
(* Values.  A pointer that may be nil and is compared by what it points to *)
(* (a pointer to ErrorDetail) is a sequence of length 0 (nil) or 1.        *)
(***************************************************************************)
Nil == 0

\* A string that is not valid UTF-8: proto marshalling rejects it.
InvalidUTF8 == "\\xff\\xfe"

ValidUTF8(s) == s # InvalidUTF8

NilDetail == << >>

DetailEmail == << [Reason |-> "EMAIL_ALREADY_EXISTS", Domain |-> "accounts"] >>

DetailMalformed == << [Reason |-> InvalidUTF8, Domain |-> "orders"] >>

FieldEmail == [Name |-> "email", Description |-> "required"]

FieldAge == [Name |-> "age", Description |-> "must be positive"]

\* The inputs the operations are called with.
Messages == { "bad" }

WrapMessages == { "ctx" }

DetailPtrs == { NilDetail, DetailEmail, DetailMalformed }

DetailArgs == { << >>, << DetailEmail, DetailMalformed >> }

FieldMalformed == [Name |-> InvalidUTF8, Description |-> "required"]

FieldArgs ==
    { << >>, << FieldEmail >>, << FieldEmail, FieldAge >>, << FieldAge, FieldAge >>,
      << FieldMalformed >> }

(***************************************************************************)
(* fmt.Sprintf on the formats used here: a format is a sequence of pieces, *)
(* a literal text or the verb %s; a verb consumes the next argument, a     *)
(* verb without argument renders %!s(MISSING) and arguments left over are  *)
(* reported at the end.                                                    *)
(***************************************************************************)
Lit(s) == [verb |-> FALSE, text |-> s]

VerbS == [verb |-> TRUE, text |-> "%s"]

RECURSIVE SprintfFrom(_, _, _)
SprintfFrom(format, args, i) ==
    IF i > Len(format)
    THEN IF args = << >> THEN "" ELSE "%!(EXTRA string=" \o Head(args) \o ")"
    ELSE IF format[i].verb
         THEN IF args = << >>
              THEN "%!s(MISSING)" \o SprintfFrom(format, args, i + 1)
              ELSE Head(args) \o SprintfFrom(format, Tail(args), i + 1)
         ELSE format[i].text \o SprintfFrom(format, args, i + 1)

Sprintf(format, args) == SprintfFrom(format, args, 1)

FormatArgs ==
    { [format |-> << Lit("id="), VerbS >>, args |-> << "7" >>],
      [format |-> << Lit("boom") >>, args |-> << >>] }

VARIABLES
    heap,      \* the error values allocated so far; a pointer is an index
    nstacks,   \* number of stacks captured so far by callers()
    applied,   \* per object: how many Wrap/Wrapf and WithStack calls returned it
    last,      \* the last call: its name, its error argument and its result
    sugar,     \* flog: the package's sugared zap logger, Nil until set
    logger,    \* flog: the package's zap logger, Nil until set
    fn,        \* flog: what each logging function variable is bound to
    zaps,      \* flog: number of zap loggers built so far
    core,      \* flog: the cores of the zap logger in use
    out,       \* flog: what the last logging call wrote, and whether it exited
    icpt,      \* sentrygrpc: the interceptor built, with the options it holds
    hub,       \* sentrygrpc: what the hub cloned for the last call was handed
    rpc,       \* sentrygrpc: how the last call of the interceptor ended
    tasks,     \* concurrent Wrap: per task its position and what it has read
    lock,      \* concurrent Wrap: the task holding the caller's mutex, or Nil
    serialize, \* concurrent Wrap: whether the caller takes a mutex around Wrap
    renders,   \* buffer pool: per task the Error() calls in progress and the result
    bufs,      \* buffer pool: the content of every buffer allocated so far
    pool,      \* buffer pool: the buffers that are in _buffer
    req,       \* http: the request being served and what its handler has called
    rw,        \* http: the logging responseWriter of the request
    under,     \* http: the ResponseWriter underneath, what the client is sent
    entries,   \* http: the log entries written by the RequestLogger
    tokenCalls, \* gcp: the token calls made, with what they met and returned
    cfg,       \* fconfig: the loadConfig call in progress
    clients    \* fconfig: the secret-manager clients created so far

ferrorsVars == << heap, nstacks, applied >>

flogVars == << sugar, logger, fn, zaps, core, out >>

sentryVars == << icpt, hub, rpc >>

raceVars == << tasks, lock, serialize >>

\* the variables of the packages and settings modelled after sentrygrpc
poolVars == << renders, bufs, pool >>

httpVars == << req, rw, under, entries >>

gcpVars == << tokenCalls >>

cfgVars == << cfg, clients >>

laterVars == << raceVars, poolVars, httpVars, gcpVars, cfgVars >>

vars == << ferrorsVars, last, flogVars, sentryVars, laterVars >>

Addrs == 1 .. Len(heap)

IsKind(h, a, k) == a # Nil /\ h[a].kind = k

\* the type assertion of err to a pointer to wrapped
IsWrapped(h, a) == IsKind(h, a, "wrapped")

\* the root-cause shapes of the package
IsRoot(h, a) == IsKind(h, a, "fundamental") \/ IsKind(h, a, "withFields")

\* the calls that layered context over an error so far: the stacks captured
\* by wrapping calls and the causes exposed by errors of other packages
NumLayers ==
    Cardinality({ a \in Addrs : IsKind(heap, a, "foreign") /\ heap[a].cause # Nil })
        + (nstacks - Cardinality({ a \in Addrs : IsRoot(heap, a) }))

CanLayer == NumLayers < MaxLayers

(***************************************************************************)
(* callers(): captures the stack of the caller.  A stack is identified by  *)
(* the order in which it was captured.                                     *)
(***************************************************************************)
callers == nstacks + 1

\* The record of a call: its name, its error argument (Nil for a
\* constructor), its other arguments and the value it returned.
Call(op, err, args, ret) == [op |-> op, err |-> err, args |-> args, ret |-> ret]

NoCalls == [wraps |-> 0, stacks |-> 0]

(***************************************************************************)
(* The error shapes.                                                       *)
(***************************************************************************)
\* &fundamental{ErrorCode: code, Msg: message, stack: callers()}
fundamental(code, message, stack) ==
    [kind |-> "fundamental", ErrorCode |-> code, Detail |-> NilDetail,
     Msg |-> message, stack |-> stack]

\* &withFields{fundamental: &fundamental{...}, Fields: fields}
withFields(code, message, stack, fields) ==
    [kind |-> "withFields", fundamental |-> fundamental(code, message, stack),
     Fields |-> fields]

\* &wrapped{cause: err, stacks: ..., msgs: ...}
wrapped(cause, stacks, msgs) ==
    [kind |-> "wrapped", msgs |-> msgs, stacks |-> stacks, cause |-> cause]

\* an error of another package; with a cause it has a Cause() method
foreign(message, cause) == [kind |-> "foreign", Msg |-> message, cause |-> cause]

\* the fundamental an object of a root shape holds (embedding promotes its
\* fields to withFields)
Fund(h, a) == IF h[a].kind = "withFields" THEN h[a].fundamental ELSE h[a]

(***************************************************************************)
(* Method sets, as declared in the source, and the interfaces asserted.    *)
(***************************************************************************)
Methods(h, a) ==
    CASE h[a].kind = "fundamental" ->
             { "WithDetail", "Code", "Error", "Format", "GRPCStatus" }
      [] h[a].kind = "withFields" ->
             { "WithDetail", "Code", "Error", "Format", "GRPCStatus" }
      [] h[a].kind = "wrapped" ->
             { "Error", "Format", "Code", "GRPCStatus", "Cause", "Unwrap" }
      [] h[a].kind = "foreign" ->
             IF h[a].cause # Nil THEN { "Error", "Cause" } ELSE { "Error" }

\* type Ferror interface { Code(); WithDetail(); error }
Ferror == { "Code", "WithDetail", "Error" }

\* e, ok := err.(Ferror)
IsFerror(h, a) == a # Nil /\ Ferror \subseteq Methods(h, a)

(***************************************************************************)
(* Constructors: each returns the object it allocates.                     *)
(***************************************************************************)
New(message) == fundamental(Unknown, message, callers)

Newf(format, args) == fundamental(Unknown, Sprintf(format, args), callers)

\* a detail slot that keeps the first detail it was given
fundamentalWithDetail_KeepsFirst(f, detail) ==
    IF f.Detail = NilDetail THEN [f EXCEPT !.Detail = detail] ELSE f

\* f.Detail = detail
fundamentalWithDetail(f, detail) == [f EXCEPT !.Detail = detail]

\* w.Detail = detail, on the embedded fundamental
withFieldsWithDetail(w, detail) == [w EXCEPT !.fundamental.Detail = detail]

WithCode(code, message, detail) ==
    LET dtl == IF Len(detail) > 0 THEN detail[1] ELSE NilDetail
    IN  fundamentalWithDetail(fundamental(code, message, callers), dtl)

NewInvalidArgumentError(msg, fields) == withFields(InvalidArgument, msg, callers, fields)

NewAlreadyExistsError(msg, fields) == withFields(AlreadyExists, msg, callers, fields)

NewInternalError(msg) == fundamental(Internal, msg, callers)

NewOutOfRangeError(msg, fields) == withFields(OutOfRange, msg, callers, fields)

NewPermissionDeniedError(msg) == fundamental(PermissionDenied, msg, callers)

NewUnauthenticatedError(msg) == fundamental(Unauthenticated, msg, callers)

\* NewNotFoundError with the code of its neighbour
NewNotFoundError_Unauthenticated(msg) == fundamental(Unauthenticated, msg, callers)

NewNotFoundError(msg) == fundamental(NotFound, msg, callers)

(***************************************************************************)
(* Code and Cause.                                                         *)
(***************************************************************************)
\* func (f *fundamental) Code(): also the Code of withFields, by embedding
fundamentalCode(f) == f.ErrorCode

RECURSIVE CodeMethod(_, _)
\* func (w *wrapped) Code()
wrappedCode(h, a) ==
    IF IsFerror(h, h[a].cause) THEN CodeMethod(h, h[a].cause) ELSE Unknown

\* e.Code(), dispatched on the dynamic type
CodeMethod(h, a) ==
    IF h[a].kind = "wrapped" THEN wrappedCode(h, a) ELSE fundamentalCode(Fund(h, a))

\* Code with another default for an error that is no Ferror
Code_DefaultInternal(h, err) == IF IsFerror(h, err) THEN CodeMethod(h, err) ELSE Internal

\* func Code(err error) ErrorCode
Code(h, err) == IF IsFerror(h, err) THEN CodeMethod(h, err) ELSE Unknown

\* Cause that unwraps one layer only
Cause_OneLayer(h, err) ==
    IF err = Nil THEN Nil
    ELSE IF "Cause" \notin Methods(h, err) THEN err
    ELSE h[err].cause

\* func Cause(err error) error
RECURSIVE Cause(_, _)
Cause(h, err) ==
    IF err = Nil THEN Nil
    ELSE IF "Cause" \notin Methods(h, err) THEN err
    ELSE Cause(h, h[err].cause)

(***************************************************************************)
(* Error(): the rendering of an error as a string.                         *)
(***************************************************************************)
_separator == ": "

_lineSeparator == "\n-  "

_nestedlineSeperator == "\n\t-  "

\* func (e ErrorCode) String(): the name grpc gives the code
CodeString(c) ==
    CASE c = OK -> "OK"
      [] c = Unknown -> "Unknown"
      [] c = InvalidArgument -> "InvalidArgument"
      [] c = NotFound -> "NotFound"
      [] c = AlreadyExists -> "AlreadyExists"
      [] c = PermissionDenied -> "PermissionDenied"
      [] c = FailedPrecondition -> "FailedPrecondition"
      [] c = OutOfRange -> "OutOfRange"
      [] c = Unimplemented -> "Unimplemented"
      [] c = Internal -> "Internal"
      [] c = Unavailable -> "Unavailable"
      [] c = Unauthenticated -> "Unauthenticated"

\* func (e *ErrorDetail) String(): the text form of the message
DetailString(d) == "reason:\"" \o d.Reason \o "\" domain:\"" \o d.Domain \o "\""

\* func (f *fundamental) Error()
fundamentalError(f) ==
    "(" \o CodeString(f.ErrorCode) \o ")" \o " " \o f.Msg
        \o (IF f.Detail # NilDetail
            THEN _lineSeparator \o DetailString(f.Detail[1])
            ELSE "")

RECURSIVE FieldLines(_)
FieldLines(fields) ==
    IF fields = << >> THEN ""
    ELSE _nestedlineSeperator \o Head(fields).Name \o _separator
             \o Head(fields).Description \o FieldLines(Tail(fields))

\* a rendering that lists a field once, however often it was supplied
RECURSIVE FieldLines_Dedup(_)
FieldLines_Dedup(fields) ==
    IF fields = << >> THEN ""
    ELSE (IF \E i \in 2 .. Len(fields) : fields[i] = Head(fields)
          THEN ""
          ELSE _nestedlineSeperator \o Head(fields).Name \o _separator
                   \o Head(fields).Description)
             \o FieldLines_Dedup(Tail(fields))

withFieldsError_Dedup(w) ==
    IF Len(w.Fields) > 0
    THEN fundamentalError(w.fundamental) \o _lineSeparator \o "error fields:"
             \o FieldLines_Dedup(w.Fields)
    ELSE fundamentalError(w.fundamental)

\* func (w *withFields) Error()
withFieldsError(w) ==
    IF Len(w.Fields) > 0
    THEN fundamentalError(w.fundamental) \o _lineSeparator \o "error fields:"
             \o FieldLines(w.Fields)
    ELSE fundamentalError(w.fundamental)

RECURSIVE JoinMsgs(_)
JoinMsgs(msgs) ==
    IF msgs = << >> THEN "" ELSE Head(msgs) \o _separator \o JoinMsgs(Tail(msgs))

RECURSIVE Error(_, _)
\* the messages joined newest first
RECURSIVE JoinMsgs_NewestFirst(_)
JoinMsgs_NewestFirst(msgs) ==
    IF msgs = << >> THEN ""
    ELSE JoinMsgs_NewestFirst(Tail(msgs)) \o Head(msgs) \o _separator

\* a rendering of a wrapped error with the newest message first
wrappedError_NewestFirst(h, a) ==
    IF Len(h[a].msgs) > 0
    THEN JoinMsgs_NewestFirst(h[a].msgs) \o Error(h, h[a].cause)
    ELSE Error(h, h[a].cause)

\* func (w *wrapped) Error()
wrappedError(h, a) ==
    IF Len(h[a].msgs) > 0
    THEN JoinMsgs(h[a].msgs) \o Error(h, h[a].cause)
    ELSE Error(h, h[a].cause)

\* err.Error(), dispatched on the dynamic type
Error(h, a) ==
    CASE h[a].kind = "fundamental" -> fundamentalError(h[a])
      [] h[a].kind = "withFields" -> withFieldsError(h[a])
      [] h[a].kind = "wrapped" -> wrappedError(h, a)
      [] h[a].kind = "foreign" -> h[a].Msg

(***************************************************************************)
(* Format: what fmt writes for an error under a verb.  The output is the   *)
(* text written and, after it, the stacks rendered, in the order written.  *)
(***************************************************************************)
\* stack.Format(s, verb): the frames of one captured stack
stackFormat(st) == << st >>

\* for _, stack := range w.stacks { stack.Format(s, verb) }
RECURSIVE stacksFormat(_)
stacksFormat(stacks) ==
    IF stacks = << >> THEN << >>
    ELSE stackFormat(Head(stacks)) \o stacksFormat(Tail(stacks))

Written(text, stacks) == [text |-> text, stacks |-> stacks]

\* func (f *fundamental) Format(s fmt.State, verb rune)
fundamentalFormat(f, verb, plus) ==
    IF verb = "v" /\ plus THEN Written(fundamentalError(f), stackFormat(f.stack))
    ELSE IF verb \in { "v", "s", "q" } THEN Written(fundamentalError(f), << >>)
    ELSE Written("", << >>)

\* func (w *withFields) Format(s fmt.State, verb rune)
withFieldsFormat(w, verb, plus) ==
    IF verb = "v" /\ plus THEN Written(withFieldsError(w), stackFormat(w.fundamental.stack))
    ELSE IF verb \in { "v", "s", "q" } THEN Written(withFieldsError(w), << >>)
    ELSE Written("", << >>)

\* func (w *wrapped) Format(s fmt.State, verb rune)
wrappedFormat(h, a, verb, plus) ==
    IF verb = "v" /\ plus THEN Written(wrappedError(h, a), stacksFormat(h[a].stacks))
    ELSE IF verb \in { "v", "s", "q" } THEN Written(wrappedError(h, a), << >>)
    ELSE Written("", << >>)

\* fmt with an error operand: its Format method when it has one, else its
\* Error() under the verbs that print a string
Format(h, a, verb, plus) ==
    CASE h[a].kind = "fundamental" -> fundamentalFormat(h[a], verb, plus)
      [] h[a].kind = "withFields" -> withFieldsFormat(h[a], verb, plus)
      [] h[a].kind = "wrapped" -> wrappedFormat(h, a, verb, plus)
      [] h[a].kind = "foreign" ->
             IF verb \in { "v", "s", "q" } THEN Written(Error(h, a), << >>)
             ELSE Written("", << >>)

(***************************************************************************)
(* The status library (google.golang.org/grpc/status) as the package uses  *)
(* it.  A status is a code, a message and a list of details.  WithDetails  *)
(* fails on a status of code OK and on a detail that cannot be marshalled  *)
(* (a string field that is not valid UTF-8).                               *)
(***************************************************************************)
\* status.New(c, msg)
statusNew(c, msg) == [code |-> c, message |-> msg, details |-> << >>]

ErrorInfo(d) == [type |-> "ErrorInfo", reason |-> d.Reason, domain |-> d.Domain]

BadRequest(violations) == [type |-> "BadRequest", violations |-> violations]

PreconditionFailure(violations) ==
    [type |-> "PreconditionFailure", violations |-> violations]

Marshals(m) ==
    CASE m.type = "ErrorInfo" -> ValidUTF8(m.reason) /\ ValidUTF8(m.domain)
      [] m.type = "BadRequest" ->
             \A i \in 1 .. Len(m.violations) :
                 ValidUTF8(m.violations[i].Field) /\ ValidUTF8(m.violations[i].Description)
      [] m.type = "PreconditionFailure" ->
             \A i \in 1 .. Len(m.violations) :
                 ValidUTF8(m.violations[i].Subject) /\ ValidUTF8(m.violations[i].Description)

\* std, err = st.WithDetails(m)
WithDetails(st, m) ==
    IF st.code = OK \/ ~Marshals(m)
    THEN [err |-> TRUE]
    ELSE [err |-> FALSE, std |-> [st EXCEPT !.details = Append(@, m)]]

\* The outcome of a conversion: a status returned, or a panic.
Returned(st) == [panic |-> FALSE, st |-> st]

Panicked == [panic |-> TRUE]

\* a conversion that returns the bare status when the library rejects the detail
fundamentalGRPCStatus_DropsDetail(f) ==
    LET st == statusNew(f.ErrorCode, f.Msg)
    IN  IF f.Detail # NilDetail
        THEN LET r == WithDetails(st, ErrorInfo(f.Detail[1]))
             IN  IF r.err THEN Returned(st) ELSE Returned(r.std)
        ELSE Returned(st)

\* func (f *fundamental) GRPCStatus()
fundamentalGRPCStatus(f) ==
    LET st == statusNew(f.ErrorCode, f.Msg)
    IN  IF f.Detail # NilDetail
        THEN LET r == WithDetails(st, ErrorInfo(f.Detail[1]))
             IN  IF r.err THEN Panicked ELSE Returned(r.std)
        ELSE Returned(st)

\* the violations with field and description exchanged
FieldViolations_Exchanged(fields) ==
    [i \in 1 .. Len(fields) |->
        [Description |-> fields[i].Name, Field |-> fields[i].Description]]

\* the violations of a BadRequest, one per field
FieldViolations(fields) ==
    [i \in 1 .. Len(fields) |->
        [Description |-> fields[i].Description, Field |-> fields[i].Name]]

\* the violations of a PreconditionFailure, one per field
Violations(fields) ==
    [i \in 1 .. Len(fields) |->
        [Description |-> fields[i].Description, Subject |-> fields[i].Name]]

\* a conversion that attaches the fields whatever the code
withFieldsGRPCStatus_AnyCode(w) ==
    LET st == statusNew(w.fundamental.ErrorCode, w.fundamental.Msg)
        r == WithDetails(st, BadRequest(FieldViolations(w.Fields)))
    IN  IF r.err THEN Panicked ELSE Returned(r.std)

\* func (w *withFields) GRPCStatus()
withFieldsGRPCStatus(w) ==
    LET st == statusNew(w.fundamental.ErrorCode, w.fundamental.Msg)
        after(r) == IF r.err THEN Panicked ELSE Returned(r.std)
    IN  CASE w.fundamental.ErrorCode = InvalidArgument ->
                 after(WithDetails(st, BadRequest(FieldViolations(w.Fields))))
          [] w.fundamental.ErrorCode = FailedPrecondition ->
                 after(WithDetails(st, PreconditionFailure(Violations(w.Fields))))
          [] OTHER -> Returned(st)

RECURSIVE GRPCStatus(_, _)
\* a conversion of a wrapped error from its own code and text
wrappedGRPCStatus_OwnText(h, a) == Returned(statusNew(CodeMethod(h, a), Error(h, a)))

\* status.Convert(err): the status of an error that has a GRPCStatus method,
\* else a status of code Unknown with the error's text
Convert(h, err) ==
    IF err = Nil THEN Returned(Nil)
    ELSE IF "GRPCStatus" \in Methods(h, err) THEN GRPCStatus(h, err)
    ELSE Returned(statusNew(Unknown, Error(h, err)))

\* func (w *wrapped) GRPCStatus()
wrappedGRPCStatus(h, a) == Convert(h, h[a].cause)

\* err.GRPCStatus(), dispatched on the dynamic type
GRPCStatus(h, a) ==
    CASE h[a].kind = "fundamental" -> fundamentalGRPCStatus(h[a])
      [] h[a].kind = "withFields" -> withFieldsGRPCStatus(h[a])
      [] h[a].kind = "wrapped" -> wrappedGRPCStatus(h, a)

(***************************************************************************)
(* WithStack, Wrap and Wrapf on a heap h: the heap after the call, the     *)
(* value returned and the number of stacks captured.                       *)
(***************************************************************************)
\* WithStack without its nil check
WithStack_NoNilCheck(h, err) ==
    IF IsWrapped(h, err)
    THEN [heap |-> [h EXCEPT ![err].stacks = Append(@, callers)],
          ret |-> err, captured |-> 1]
    ELSE [heap |-> Append(h, wrapped(err, << callers >>, << >>)),
          ret |-> Len(h) + 1, captured |-> 1]

\* func WithStack(err error) error
WithStack(h, err) ==
    IF err = Nil THEN [heap |-> h, ret |-> Nil, captured |-> 0]
    ELSE IF IsWrapped(h, err)
    THEN [heap |-> [h EXCEPT ![err].stacks = Append(@, callers)],
          ret |-> err, captured |-> 1]
    ELSE [heap |-> Append(h, wrapped(err, << callers >>, << >>)),
          ret |-> Len(h) + 1, captured |-> 1]

\* Wrap without the branch for an error that is already wrapped
Wrap_Nests(h, err, msg) ==
    IF err = Nil THEN [heap |-> h, ret |-> Nil, captured |-> 0]
    ELSE [heap |-> Append(h, wrapped(err, << callers >>, << msg >>)),
          ret |-> Len(h) + 1, captured |-> 1]

\* Wrap that records no stack when the error is already wrapped
Wrap_NoStack(h, err, msg) ==
    IF err = Nil THEN [heap |-> h, ret |-> Nil, captured |-> 0]
    ELSE IF IsWrapped(h, err)
    THEN [heap |-> [h EXCEPT ![err].msgs = Append(@, msg)],
          ret |-> err, captured |-> 0]
    ELSE [heap |-> Append(h, wrapped(err, << callers >>, << msg >>)),
          ret |-> Len(h) + 1, captured |-> 1]

\* func Wrap(err error, msg string) error
Wrap(h, err, msg) ==
    IF err = Nil THEN [heap |-> h, ret |-> Nil, captured |-> 0]
    ELSE IF IsWrapped(h, err)
    THEN [heap |-> [h EXCEPT ![err].msgs = Append(@, msg),
                             ![err].stacks = Append(@, callers)],
          ret |-> err, captured |-> 1]
    ELSE [heap |-> Append(h, wrapped(err, << callers >>, << msg >>)),
          ret |-> Len(h) + 1, captured |-> 1]

\* Wrapf that returns a copy of a wrapped value with the message added
Wrapf_Copies(h, err, format, args) ==
    IF err = Nil THEN [heap |-> h, ret |-> Nil, captured |-> 0]
    ELSE IF IsWrapped(h, err)
    THEN [heap |-> Append(h, wrapped(h[err].cause, Append(h[err].stacks, callers),
                                     Append(h[err].msgs, Sprintf(format, args)))),
          ret |-> Len(h) + 1, captured |-> 1]
    ELSE [heap |-> Append(h, wrapped(err, << callers >>, << Sprintf(format, args) >>)),
          ret |-> Len(h) + 1, captured |-> 1]

\* func Wrapf(err error, format string, args ...interface{}) error
Wrapf(h, err, format, args) ==
    IF err = Nil THEN [heap |-> h, ret |-> Nil, captured |-> 0]
    ELSE IF IsWrapped(h, err)
    THEN [heap |-> [h EXCEPT ![err].msgs = Append(@, Sprintf(format, args)),
                             ![err].stacks = Append(@, callers)],
          ret |-> err, captured |-> 1]
    ELSE [heap |-> Append(h, wrapped(err, << callers >>, << Sprintf(format, args) >>)),
          ret |-> Len(h) + 1, captured |-> 1]

(***************************************************************************)
(* Package flog (src/flog/flog.go): logging function variables that start  *)
(* out bound to the standard-library logger and are rebound by the         *)
(* package's operations, and the two zap loggers of the package.           *)
(***************************************************************************)
MaxZaps == 2

LogFns ==
    { "Debugf", "Debug", "Verbosef", "Verbose", "Infof", "Info", "Infow",
      "Errorf", "Error", "Fatalf", "Fatal", "Warnf", "Warn" }

\* a function value: a method of the standard logger ("log"), of the logger
\* on stdout made by LogDebugToStdout ("stdout"), of the sugared zap logger
\* number id ("zap"), or one of the two functions that do nothing ("noop")
Bound(to, method, id) == [to |-> to, method |-> method, id |-> id]

noopf == Bound("noop", "noopf", Nil)

noop == Bound("noop", "noop", Nil)

\* var Debugf = log.Printf ... var Warn = log.Print
StdBindings ==
    [f \in LogFns |->
        CASE f \in { "Debugf", "Verbosef", "Infof", "Infow", "Errorf", "Warnf" } ->
                 Bound("log", "Printf", Nil)
          [] f \in { "Debug", "Verbose", "Info", "Error", "Warn" } ->
                 Bound("log", "Print", Nil)
          [] f = "Fatalf" -> Bound("log", "Fatalf", Nil)
          [] f = "Fatal" -> Bound("log", "Fatal", Nil)]

\* func LogDebugToStdout()
LogDebugToStdout(f) ==
    [f EXCEPT !["Verbosef"] = Bound("stdout", "Printf", Nil),
              !["Verbose"] = Bound("stdout", "Println", Nil),
              !["Infof"] = Bound("stdout", "Printf", Nil),
              !["Info"] = Bound("stdout", "Println", Nil),
              !["Debugf"] = Bound("stdout", "Printf", Nil),
              !["Debug"] = Bound("stdout", "Println", Nil),
              !["Fatalf"] = Bound("stdout", "Fatalf", Nil),
              !["Fatal"] = Bound("stdout", "Fatalln", Nil),
              !["Warnf"] = Bound("stdout", "Printf", Nil),
              !["Warn"] = Bound("stdout", "Println", Nil)]

\* func LogVerboseToNowhere()
LogVerboseToNowhere(f) == [f EXCEPT !["Verbosef"] = noopf]

\* func DisableLogging()
DisableLogging(f) ==
    [f EXCEPT !["Verbosef"] = noopf,
              !["Verbose"] = noop,
              !["Infof"] = noopf,
              !["Info"] = noop,
              !["Debugf"] = noopf,
              !["Debug"] = noop,
              !["Warnf"] = noopf,
              !["Warn"] = noop]

\* type Config struct; a *Config is a sequence of length 0 (nil) or 1
Configs ==
    [LogDebugStdout : BOOLEAN, Verbose : BOOLEAN, Debug : BOOLEAN, Human : BOOLEAN]

NilConfig == << >>

ConfigPtrs == { NilConfig } \cup { << c >> : c \in Configs }

\* zapcore.NewTee(...) as built for config c: whether the low-priority core
\* lets debug through, where it writes, and the encoder
zapNew(c) == [debug |-> c.Debug, stdout |-> c.LogDebugStdout, human |-> c.Human]

NoCore == [debug |-> FALSE, stdout |-> FALSE, human |-> FALSE]

\* the function variables as InitializeSructuredLogs(c) leaves them, id
\* being the sugared logger it has built
InitializeSructuredLogs(f, id, c) ==
    [f EXCEPT !["Verbosef"] = IF ~c.Verbose THEN noopf ELSE Bound("zap", "Infof", id),
              !["Debug"] = IF ~c.Debug THEN noop ELSE Bound("zap", "Debug", id),
              !["Debugf"] = IF ~c.Debug THEN noopf ELSE Bound("zap", "Debugf", id),
              !["Infof"] = Bound("zap", "Infof", id),
              !["Info"] = Bound("zap", "Info", id),
              !["Infow"] = Bound("zap", "Infow", id),
              !["Errorf"] = Bound("zap", "Errorf", id),
              !["Error"] = Bound("zap", "Error", id),
              !["Fatalf"] = Bound("zap", "Fatalf", id),
              !["Fatal"] = Bound("zap", "Fatal", id),
              !["Warnf"] = Bound("zap", "Warnf", id),
              !["Warn"] = Bound("zap", "Warn", id)]

\* a result of SugaredLogger() or Logger(): the logger and the error
LoggerResult(val, err) == [val |-> val, err |-> err]

\* func SugaredLogger() with an inverted test
SugaredLogger_Inverted ==
    IF sugar # Nil THEN LoggerResult(Nil, "ErrNotInitialized")
    ELSE LoggerResult(sugar, "nil")

\* func SugaredLogger()
SugaredLogger ==
    IF sugar = Nil THEN LoggerResult(Nil, "ErrNotInitialized")
    ELSE LoggerResult(sugar, "nil")

\* func Logger()
Logger ==
    IF logger = Nil THEN LoggerResult(Nil, "ErrNotInitialized")
    ELSE LoggerResult(logger, "nil")

\* the zapcore level a method of the sugared logger writes at
zapLevel(method) ==
    CASE method \in { "Debug", "Debugf" } -> -1
      [] method \in { "Info", "Infof", "Infow" } -> 0
      [] method \in { "Warn", "Warnf" } -> 1
      [] method \in { "Error", "Errorf" } -> 2
      [] method \in { "Fatal", "Fatalf" } -> 5

\* highPriority: lvl >= zapcore.ErrorLevel
highPriority(lvl) == lvl >= 2

\* lowPriority: lvl < zapcore.ErrorLevel, or lvl >= zapcore.InfoLevel when
\* the config has no Debug
lowPriority(cr, lvl) == IF ~cr.debug THEN lvl >= 0 ELSE lvl < 2

Wrote(sinks, exit) == [written |-> sinks, exit |-> exit]

\* what a call of a function value writes, and whether it ends the process
Emit(b, cr) ==
    CASE b.to = "noop" -> Wrote(<< >>, FALSE)
      [] b.to = "log" -> Wrote(<< "stderr" >>, b.method \in { "Fatal", "Fatalf" })
      [] b.to = "stdout" -> Wrote(<< "stdout" >>, b.method \in { "Fatalln", "Fatalf" })
      [] b.to = "zap" ->
             LET lvl == zapLevel(b.method)
             IN  Wrote((IF highPriority(lvl) THEN << "stderr" >> ELSE << >>)
                           \o (IF lowPriority(cr, lvl)
                               THEN << IF cr.stdout THEN "stdout" ELSE "stderr" >>
                               ELSE << >>),
                       lvl = 5)

(***************************************************************************)
(* Package sentrygrpc (src/sentrygrpc): the options of an interceptor and  *)
(* one call through it.  A value of type interface{} or a response is a    *)
(* sequence of length 0 (nil) or 1.                                        *)
(***************************************************************************)
MaxOptions == 2

\* var defaultCodes
defaultCodes == { Internal, Unimplemented, Unknown }

\* a ReportOn function value: one of the package's, or nil
ReportOnFn(fun, codes) == [fun |-> fun, codes |-> codes]

NilReportOn == ReportOnFn("nil", { })

\* an InterceptorOption: the field it sets and the value it sets it to
InterceptorOption(sets, b, r) == [sets |-> sets, b |-> b, r |-> r]

NilOption == InterceptorOption("nil", FALSE, NilReportOn)

WithRepanic(repanic) == InterceptorOption("repanic", repanic, NilReportOn)

WithReportOn(repOn) == InterceptorOption("reportOn", FALSE, repOn)

WithRelog(reLog) == InterceptorOption("relog", reLog, NilReportOn)

\* interOptn(&opts)
ApplyOption(opts, o) ==
    CASE o.sets = "repanic" -> [opts EXCEPT !.repanic = o.b]
      [] o.sets = "reportOn" -> [opts EXCEPT !.reportOn = o.r]
      [] o.sets = "relog" -> [opts EXCEPT !.relog = o.b]
      [] o.sets = "nil" -> opts

\* the option struct buildOptions starts from
DefaultOptions ==
    [reportOn |-> ReportOnFn("withDefaultCodes", { }), relog |-> FALSE, repanic |-> TRUE]

RECURSIVE ApplyOptions(_, _)
ApplyOptions(opts, interOptns) ==
    IF interOptns = << >> THEN opts
    ELSE ApplyOptions(ApplyOption(opts, Head(interOptns)), Tail(interOptns))

\* options applied from the last to the first, so that the first one wins
RECURSIVE ApplyOptions_Backwards(_, _)
ApplyOptions_Backwards(opts, interOptns) ==
    IF interOptns = << >> THEN opts
    ELSE ApplyOption(ApplyOptions_Backwards(opts, Tail(interOptns)), Head(interOptns))

buildOptions_FirstWins(interOptns) == ApplyOptions_Backwards(DefaultOptions, interOptns)

\* func buildOptions(interOptns ...InterceptorOption) option
buildOptions(interOptns) == ApplyOptions(DefaultOptions, interOptns)

\* the errors a handler returns: a root cause of code NotFound, the same
\* wrapped, a root cause of code Internal, and an error of another package
HandlerErrors ==
    << fundamental(NotFound, "bad", 1),
       wrapped(1, << 2 >>, << "ctx" >>),
       fundamental(Internal, "bad", 3),
       foreign("EOF", Nil) >>

\* func withDefaultCodes(err error) bool
withDefaultCodes(err) == err # Nil /\ Code(HandlerErrors, err) \in defaultCodes

\* func ReportAlways(err error) bool
ReportAlways(err) == err # Nil

\* the function ReportOnCodes(codes...) returns
ReportOnCodes(codes, err) == err # Nil /\ Code(HandlerErrors, err) \in codes

\* opts.reportOn(err), for a reportOn that is not nil
reportOn(f, err) ==
    CASE f.fun = "withDefaultCodes" -> withDefaultCodes(err)
      [] f.fun = "ReportAlways" -> ReportAlways(err)
      [] f.fun = "ReportOnCodes" -> ReportOnCodes(f.codes, err)

\* what a handler does in one call: it panics with a value, or returns
HandlerPanics(value) == [panics |-> TRUE, value |-> value, res |-> << >>, err |-> Nil]

HandlerReturns(res, err) == [panics |-> FALSE, value |-> << >>, res |-> res, err |-> err]

\* how a call of the interceptor ends: it returns, or a panic leaves it
Replied(res, err) == [panic |-> FALSE, value |-> << >>, res |-> res, err |-> err]

Repanicked(r) == [panic |-> TRUE, value |-> r, res |-> << >>, err |-> Nil]

NotCalled == Replied(<< >>, Nil)

\* what a hub was handed: the values given to Recover, the errors given to
\* CaptureException
Events(recovered, captured) == [recovered |-> recovered, captured |-> captured]

NoEvents == Events(<< >>, << >>)

\* an interceptor: the options it was built from and the option struct it holds
NoInterceptor == [kind |-> "none", options |-> << >>, opts |-> DefaultOptions]

\* the deferred function, r being what recover() returned: a nil r ends the
\* panic and the call returns the zero values of its results
Deferred(opts, r) ==
    IF r # << >>
    THEN [hub |-> Events(r, << >>),
          rpc |-> IF opts.repanic THEN Repanicked(r) ELSE Replied(<< >>, Nil),
          relog |-> FALSE]
    ELSE [hub |-> NoEvents, rpc |-> Replied(<< >>, Nil), relog |-> FALSE]

\* the panic of a call through a nil function value
NilCall == << "invalid memory address or nil pointer dereference" >>

\* an interceptor that logs again whatever error it sees, reported or not
Intercept_RelogsUnreported(opts, h, r) ==
    IF h.panics THEN Deferred(opts, r)
    ELSE IF opts.reportOn = NilReportOn THEN Deferred(opts, NilCall)
    ELSE [hub |-> IF reportOn(opts.reportOn, h.err) THEN Events(<< >>, << h.err >>)
                  ELSE NoEvents,
          rpc |-> Replied(h.res, h.err),
          relog |-> opts.relog]

\* the body of the function an interceptor is: h is what the handler does
\* and r what recover() returns should the handler panic
Intercept(opts, h, r) ==
    IF h.panics THEN Deferred(opts, r)
    ELSE IF opts.reportOn = NilReportOn THEN Deferred(opts, NilCall)
    ELSE IF reportOn(opts.reportOn, h.err)
    THEN [hub |-> Events(<< >>, << h.err >>),
          rpc |-> Replied(h.res, h.err),
          relog |-> opts.relog]
    ELSE [hub |-> NoEvents, rpc |-> Replied(h.res, h.err), relog |-> FALSE]

\* recover() after panic(v): v, and for a nil v either nil or, in a build
\* where a nil panic is turned into a run-time error, that error
Recovered(v) == IF v = << >> THEN { << >>, << "PanicNilError" >> } ELSE { v }

(***************************************************************************)
(* The state machine: a program that creates errors, attaches details and  *)
(* wraps any error it holds, in any order.                                 *)
(***************************************************************************)
InitFerrors ==
    /\ heap = << >>
    /\ nstacks = 0
    /\ applied = << >>
    /\ last = Call("init", Nil, << >>, Nil)

InitFlog ==
    /\ sugar = Nil
    /\ logger = Nil
    /\ fn = StdBindings
    /\ zaps = 0
    /\ core = NoCore
    /\ out = Wrote(<< >>, FALSE)

InitSentry ==
    /\ icpt = NoInterceptor
    /\ hub = NoEvents
    /\ rpc = NotCalled

\* no task is wrapping
IdleRace ==
    /\ tasks = << >>
    /\ lock = Nil
    /\ serialize = FALSE

\* no task is rendering and no buffer exists
IdlePool ==
    /\ renders = << >>
    /\ bufs = << >>
    /\ pool = { }

\* http.StatusBadRequest
StatusBadRequest == 400

StatusOK == 200

StatusNotFound == 404

StatusInternalServerError == 500

\* the zero value of responseWriter
NewResponseWriter == [status |-> 0, wroteHeader |-> FALSE]

\* a ResponseWriter of the server that has sent nothing
NewUnderlying == [calls |-> << >>, status |-> 0, body |-> FALSE]

NoRequest == [phase |-> "idle", method |-> "", uri |-> "", headers |-> << >>, ops |-> 0]

\* no request has been served
IdleHttp ==
    /\ req = NoRequest
    /\ rw = NewResponseWriter
    /\ under = NewUnderlying
    /\ entries = << >>

\* no token has been asked for
IdleGcp == tokenCalls = << >>

\* loadConfig's state before it is called: no file, sc nil in loadConfig and
\* in the decode hook
NotLoading ==
    [phase |-> "idle", file |-> << >>, next |-> 1, sc |-> Nil, hookSc |-> Nil,
     decoded |-> << >>, errs |-> << >>]

IdleConfig ==
    /\ cfg = NotLoading
    /\ clients = << >>

Init ==
    /\ InitFerrors
    /\ InitFlog
    /\ InitSentry
    /\ IdleRace
    /\ IdlePool
    /\ IdleHttp
    /\ IdleGcp
    /\ IdleConfig

\* A constructor call: the object is allocated and its stack captured.
Construct(op, args, obj) ==
    /\ heap = << >>
    /\ heap' = Append(heap, obj)
    /\ nstacks' = nstacks + 1
    /\ applied' = Append(applied, NoCalls)
    /\ last' = Call(op, Nil, args, Len(heap) + 1)
    /\ UNCHANGED << flogVars, sentryVars, laterVars >>

CallNew ==
    \E m \in Messages : Construct("New", [message |-> m], New(m))

CallNewf ==
    \E f \in FormatArgs : Construct("Newf", f, Newf(f.format, f.args))

CallWithCode ==
    \E c \in Codes, m \in Messages, d \in DetailArgs :
        Construct("WithCode", [code |-> c, message |-> m, detail |-> d],
                  WithCode(c, m, d))

CallNewInvalidArgumentError ==
    \E m \in Messages, f \in FieldArgs :
        Construct("NewInvalidArgumentError", [message |-> m, fields |-> f],
                  NewInvalidArgumentError(m, f))

CallNewAlreadyExistsError ==
    \E m \in Messages, f \in FieldArgs :
        Construct("NewAlreadyExistsError", [message |-> m, fields |-> f],
                  NewAlreadyExistsError(m, f))

CallNewOutOfRangeError ==
    \E m \in Messages, f \in FieldArgs :
        Construct("NewOutOfRangeError", [message |-> m, fields |-> f],
                  NewOutOfRangeError(m, f))

CallNewInternalError ==
    \E m \in Messages :
        Construct("NewInternalError", [message |-> m], NewInternalError(m))

CallNewPermissionDeniedError ==
    \E m \in Messages :
        Construct("NewPermissionDeniedError", [message |-> m],
                  NewPermissionDeniedError(m))

CallNewUnauthenticatedError ==
    \E m \in Messages :
        Construct("NewUnauthenticatedError", [message |-> m],
                  NewUnauthenticatedError(m))

CallNewNotFoundError ==
    \E m \in Messages :
        Construct("NewNotFoundError", [message |-> m], NewNotFoundError(m))

\* e.WithDetail(d) on an error of a root shape: the detail slot is set in
\* place and the same value is returned.
CallWithDetail ==
    \E a \in Addrs, d \in DetailPtrs :
        /\ IsRoot(heap, a)
        /\ heap' = [heap EXCEPT ![a] =
                        IF @.kind = "withFields"
                        THEN withFieldsWithDetail(@, d)
                        ELSE fundamentalWithDetail(@, d)]
        /\ last' = Call("WithDetail", a, [detail |-> d], a)
        /\ UNCHANGED << nstacks, applied, flogVars, sentryVars, laterVars >>

\* An error of another package comes into being: a plain one, or one that
\* exposes an error already held as its cause.
CallForeign ==
    \E c \in Addrs \cup { Nil } :
        /\ IF c = Nil THEN heap = << >> ELSE CanLayer
        /\ heap' = Append(heap, foreign("EOF", c))
        /\ applied' = Append(applied, NoCalls)
        /\ last' = Call("foreign", c, << >>, Len(heap) + 1)
        /\ UNCHANGED << nstacks, flogVars, sentryVars, laterVars >>

\* The bookkeeping common to the three wrapping calls; r is what the call
\* made of the heap, which counts whether it was a Wrap/Wrapf or a WithStack.
Wrapping(op, err, args, r, which) ==
    /\ err # Nil => CanLayer
    /\ heap' = r.heap
    /\ nstacks' = nstacks + r.captured
    /\ applied' =
           IF r.ret = Nil THEN applied
           ELSE LET base == IF r.ret > Len(heap) THEN Append(applied, NoCalls)
                            ELSE applied
                IN  IF which = "wraps"
                    THEN [base EXCEPT ![r.ret].wraps = @ + 1]
                    ELSE [base EXCEPT ![r.ret].stacks = @ + 1]
    /\ last' = Call(op, err, args, r.ret)
    /\ UNCHANGED << flogVars, sentryVars, laterVars >>

CallWithStack ==
    \E err \in Addrs \cup { Nil } :
        Wrapping("WithStack", err, << >>, WithStack(heap, err), "stacks")

CallWrap ==
    \E err \in Addrs \cup { Nil }, m \in WrapMessages :
        Wrapping("Wrap", err, << >>, Wrap(heap, err, m), "wraps")

CallWrapf ==
    \E err \in Addrs \cup { Nil }, f \in FormatArgs :
        Wrapping("Wrapf", err, << >>, Wrapf(heap, err, f.format, f.args), "wraps")

Next ==
    \/ CallNew
    \/ CallNewf
    \/ CallWithCode
    \/ CallNewInvalidArgumentError
    \/ CallNewAlreadyExistsError
    \/ CallNewOutOfRangeError
    \/ CallNewInternalError
    \/ CallNewPermissionDeniedError
    \/ CallNewUnauthenticatedError
    \/ CallNewNotFoundError
    \/ CallWithDetail
    \/ CallForeign
    \/ CallWithStack
    \/ CallWrap
    \/ CallWrapf

Spec == Init /\ [][Next]_vars

(***************************************************************************)
(* The state machine of package flog: a program that calls the package's   *)
(* operations and its logging functions in any order, until a Fatal call   *)
(* that writes ends it.                                                    *)
(***************************************************************************)
CallLogDebugToStdout ==
    /\ ~out.exit
    /\ fn' = LogDebugToStdout(fn)
    /\ last' = Call("LogDebugToStdout", Nil, << >>, Nil)
    /\ UNCHANGED << ferrorsVars, sentryVars, laterVars, sugar, logger, zaps, core, out >>

CallLogVerboseToNowhere ==
    /\ ~out.exit
    /\ fn' = LogVerboseToNowhere(fn)
    /\ last' = Call("LogVerboseToNowhere", Nil, << >>, Nil)
    /\ UNCHANGED << ferrorsVars, sentryVars, laterVars, sugar, logger, zaps, core, out >>

CallDisableLogging ==
    /\ ~out.exit
    /\ fn' = DisableLogging(fn)
    /\ last' = Call("DisableLogging", Nil, << >>, Nil)
    /\ UNCHANGED << ferrorsVars, sentryVars, laterVars, sugar, logger, zaps, core, out >>

\* InitializeSructuredLogs(c): with a nil c it panics on reading c.Debug,
\* before anything is assigned; else it builds a logger, sets logger and
\* sugar, rebinds the function variables and returns a nil error.
CallInitializeSructuredLogs ==
    \E c \in ConfigPtrs :
        /\ ~out.exit
        /\ IF c = NilConfig
           THEN /\ last' = Call("InitializeSructuredLogs", Nil, c, [panic |-> TRUE])
                /\ UNCHANGED << sugar, logger, fn, zaps, core >>
           ELSE /\ zaps < MaxZaps
                /\ zaps' = zaps + 1
                /\ core' = zapNew(c[1])
                /\ logger' = zaps + 1
                /\ sugar' = zaps + 1
                /\ fn' = InitializeSructuredLogs(fn, zaps + 1, c[1])
                /\ last' = Call("InitializeSructuredLogs", Nil, c,
                                [panic |-> FALSE, err |-> "nil"])
        /\ UNCHANGED << ferrorsVars, sentryVars, laterVars, out >>

CallSugaredLogger ==
    /\ ~out.exit
    /\ last' = Call("SugaredLogger", Nil, << >>, SugaredLogger)
    /\ UNCHANGED << ferrorsVars, sentryVars, laterVars, flogVars >>

CallLogger ==
    /\ ~out.exit
    /\ last' = Call("Logger", Nil, << >>, Logger)
    /\ UNCHANGED << ferrorsVars, sentryVars, laterVars, flogVars >>

\* a call of one of the logging function variables
CallLog ==
    \E f \in LogFns :
        /\ ~out.exit
        /\ out' = Emit(fn[f], core)
        /\ last' = Call(f, Nil, << >>, Nil)
        /\ UNCHANGED << ferrorsVars, sentryVars, laterVars, sugar, logger, fn, zaps, core >>

NextFlog ==
    \/ CallLogDebugToStdout
    \/ CallLogVerboseToNowhere
    \/ CallDisableLogging
    \/ CallInitializeSructuredLogs
    \/ CallSugaredLogger
    \/ CallLogger
    \/ CallLog

SpecFlog == Init /\ [][NextFlog]_vars

(***************************************************************************)
(* The state machine of package sentrygrpc: a server builds one            *)
(* interceptor from a list of options and then serves calls through it,    *)
(* each with a handler that returns or panics.                             *)
(***************************************************************************)
OptionValues ==
    { NilOption, WithRepanic(TRUE), WithRepanic(FALSE), WithRelog(TRUE), WithRelog(FALSE),
      WithReportOn(ReportOnFn("ReportAlways", { })),
      WithReportOn(ReportOnFn("ReportOnCodes", { NotFound })),
      WithReportOn(NilReportOn) }

RECURSIVE SeqsUpTo(_, _)
SeqsUpTo(S, n) ==
    IF n = 0 THEN { << >> }
    ELSE LET shorter == SeqsUpTo(S, n - 1)
         IN  shorter \cup { Append(q, x) : q \in shorter, x \in S }

OptionLists == SeqsUpTo(OptionValues, MaxOptions)

PanicValues == { << >>, << "boom" >> }

UnaryHandlers ==
    { HandlerPanics(v) : v \in PanicValues }
        \cup { HandlerReturns(<< "resp" >>, Nil) }
        \cup { HandlerReturns(<< >>, e) : e \in DOMAIN HandlerErrors }

\* a stream handler returns an error only
StreamHandlers ==
    { HandlerPanics(v) : v \in PanicValues }
        \cup { HandlerReturns(<< >>, e) : e \in { Nil } \cup DOMAIN HandlerErrors }

Build(kind, op, options) ==
    /\ icpt = NoInterceptor
    /\ icpt' = [kind |-> kind, options |-> options, opts |-> buildOptions(options)]
    /\ last' = Call(op, Nil, options, Nil)
    /\ UNCHANGED << ferrorsVars, flogVars, laterVars, hub, rpc >>

SentryUnaryServerInterceptor ==
    \E options \in OptionLists : Build("unary", "SentryUnaryServerInterceptor", options)

SentryStreamServerInterceptor ==
    \E options \in OptionLists : Build("stream", "SentryStreamServerInterceptor", options)

\* one call through the interceptor; a relog is a call of flog.Errorf
Serve(h, r) ==
    LET c == Intercept(icpt.opts, h, r)
    IN  /\ hub' = c.hub
        /\ rpc' = c.rpc
        /\ out' = IF c.relog THEN Emit(fn["Errorf"], core) ELSE out
        /\ last' = Call("handler", Nil, h, [relogged |-> c.relog])
        /\ UNCHANGED << ferrorsVars, laterVars, sugar, logger, fn, zaps, core, icpt >>

CallUnary ==
    /\ icpt.kind = "unary"
    /\ \E h \in UnaryHandlers : \E r \in Recovered(h.value) : Serve(h, r)

CallStream ==
    /\ icpt.kind = "stream"
    /\ \E h \in StreamHandlers : \E r \in Recovered(h.value) : Serve(h, r)

NextSentry ==
    \/ SentryUnaryServerInterceptor
    \/ SentryStreamServerInterceptor
    \/ CallUnary
    \/ CallStream

SpecSentry == Init /\ [][NextSentry]_vars

(***************************************************************************)
(* Concurrent Wrap on one wrapped value.  The package takes no lock, so a  *)
(* call is a sequence of memory accesses that interleave with those of     *)
(* other tasks: the msgs slice is read and the appended slice written      *)
(* back, then the same for the stacks slice.  Two appends that share a     *)
(* backing array, or a slice header written in parts, leave the slice of   *)
(* one of the writers, which is what the write steps below produce.        *)
(* A caller may serialize its calls with a mutex of its own.               *)
(***************************************************************************)
MaxTasks == 2

Tasks == 1 .. MaxTasks

\* the wrapped value the tasks share
SharedErr == 2

\* the msg argument of task t
TaskMsg(t) == "m" \o ToString(t)

\* the slices a call has read, and the stack it has captured
Locals(pc, msgs, stacks) == [pc |-> pc, msgs |-> msgs, stacks |-> stacks]

\* an append that leaves the slice as it was
appendMsg_Dropped(h, err, msgs, msg) == h

\* werr.msgs = append(werr.msgs, msg), the write
appendMsg(h, err, msgs, msg) == [h EXCEPT ![err].msgs = Append(msgs, msg)]

\* werr.stacks = append(werr.stacks, callers()), the write
appendStack(h, err, stacks, st) == [h EXCEPT ![err].stacks = Append(stacks, st)]

\* a wrapped value exists, made by WithStack or by Wrap, and every task is
\* about to call Wrap on it
InitRace ==
    /\ heap \in { << fundamental(NotFound, "bad", 1), wrapped(1, << 2 >>, << >>) >>,
                  << fundamental(NotFound, "bad", 1), wrapped(1, << 2 >>, << "ctx" >>) >> }
    /\ nstacks = 2
    /\ applied = << NoCalls,
                    [wraps |-> Len(heap[SharedErr].msgs),
                     stacks |-> 1 - Len(heap[SharedErr].msgs)] >>
    /\ last = Call("init", Nil, << >>, Nil)
    /\ tasks = [t \in Tasks |-> Locals("call", << >>, << >>)]
    /\ lock = Nil
    /\ serialize \in BOOLEAN
    /\ InitFlog
    /\ InitSentry
    /\ IdlePool
    /\ IdleHttp
    /\ IdleGcp
    /\ IdleConfig

Step(t, pc, next) ==
    /\ tasks[t].pc = pc
    /\ tasks' = [tasks EXCEPT ![t].pc = next]

\* the caller takes its mutex, if it uses one, and calls Wrap; err is a
\* wrapped value, so the call takes the branch that appends
WrapCall(t) ==
    /\ Step(t, "call", "readMsgs")
    /\ IsWrapped(heap, SharedErr)
    /\ IF serialize THEN lock = Nil /\ lock' = t ELSE UNCHANGED lock
    /\ UNCHANGED << ferrorsVars, last, serialize, flogVars, sentryVars, poolVars, httpVars, gcpVars, cfgVars >>

WrapReadMsgs(t) ==
    /\ tasks[t].pc = "readMsgs"
    /\ tasks' = [tasks EXCEPT ![t] = Locals("writeMsgs", heap[SharedErr].msgs, << >>)]
    /\ UNCHANGED << ferrorsVars, last, lock, serialize, flogVars, sentryVars, poolVars, httpVars, gcpVars, cfgVars >>

WrapWriteMsgs(t) ==
    /\ Step(t, "writeMsgs", "readStacks")
    /\ heap' = appendMsg(heap, SharedErr, tasks[t].msgs, TaskMsg(t))
    /\ UNCHANGED << nstacks, applied, last, lock, serialize, flogVars, sentryVars, poolVars, httpVars, gcpVars, cfgVars >>

WrapReadStacks(t) ==
    /\ tasks[t].pc = "readStacks"
    /\ tasks' = [tasks EXCEPT ![t] = Locals("writeStacks", @.msgs, heap[SharedErr].stacks)]
    /\ UNCHANGED << ferrorsVars, last, lock, serialize, flogVars, sentryVars, poolVars, httpVars, gcpVars, cfgVars >>

WrapWriteStacks(t) ==
    /\ Step(t, "writeStacks", "return")
    /\ heap' = appendStack(heap, SharedErr, tasks[t].stacks, callers)
    /\ nstacks' = nstacks + 1
    /\ UNCHANGED << applied, last, lock, serialize, flogVars, sentryVars, poolVars, httpVars, gcpVars, cfgVars >>

\* return werr; the caller then releases its mutex
WrapReturn(t) ==
    /\ Step(t, "return", "done")
    /\ applied' = [applied EXCEPT ![SharedErr].wraps = @ + 1]
    /\ last' = Call("Wrap", SharedErr, << >>, SharedErr)
    /\ lock' = Nil
    /\ UNCHANGED << heap, nstacks, serialize, flogVars, sentryVars, poolVars, httpVars, gcpVars, cfgVars >>

NextRace ==
    \/ \E t \in Tasks : WrapCall(t)
    \/ \E t \in Tasks : WrapReadMsgs(t)
    \/ \E t \in Tasks : WrapWriteMsgs(t)
    \/ \E t \in Tasks : WrapReadStacks(t)
    \/ \E t \in Tasks : WrapWriteStacks(t)
    \/ \E t \in Tasks : WrapReturn(t)

SpecRace == InitRace /\ [][NextRace]_vars

(***************************************************************************)
(* Concurrent Error() calls and the buffer pool _buffer.  Get hands out a  *)
(* buffer of the pool, or a new one, to one caller; Put gives it back with *)
(* its content.  A task is a stack of Error() calls: a render that needs   *)
(* the text of its embedded fundamental or of its cause calls that         *)
(* Error() while it holds its own buffer.  Tasks interleave at the calls   *)
(* of Get and Put, the only accesses to shared state.                      *)
(***************************************************************************)
MaxRenders == 2

Renderers == 1 .. MaxRenders

\* the errors rendered: a fundamental with a detail, a withFields, a wrapped
\* value with a message over it, and a wrapped value without a message
PoolErrors ==
    << fundamentalWithDetail(fundamental(NotFound, "bad", 1), DetailEmail),
       withFields(InvalidArgument, "bad", 2, << FieldEmail >>),
       wrapped(2, << 3 >>, << "ctx" >>),
       wrapped(1, << 4 >>, << >>) >>

\* the receiver of an Error() call: a value, or the fundamental embedded in it
Receiver(a, part) == [a |-> a, part |-> part]

\* an Error() call that returns the Error() of another receiver without
\* taking a buffer is that other call
RECURSIVE Resolve(_)
Resolve(rc) ==
    LET v == PoolErrors[rc.a]
    IN  IF rc.part = "fundamental" \/ v.kind = "fundamental" THEN rc
        ELSE IF v.kind = "withFields"
        THEN IF Len(v.Fields) > 0 THEN rc ELSE Receiver(rc.a, "fundamental")
        ELSE IF Len(v.msgs) > 0 THEN rc ELSE Resolve(Receiver(v.cause, "self"))

\* the kind of method an Error() call runs
MethodOf(rc) ==
    IF rc.part = "fundamental" THEN "fundamental" ELSE PoolErrors[rc.a].kind

\* the fundamental a fundamental.Error() call renders
FundOf(rc) ==
    IF PoolErrors[rc.a].kind = "withFields" THEN PoolErrors[rc.a].fundamental
    ELSE PoolErrors[rc.a]

\* an Error() call in progress
Frame(rc, pc, buf) == [rc |-> rc, pc |-> pc, buf |-> buf]

NotRendering == [frames |-> << >>, err |-> Nil, result |-> << >>]

\* buf.Reset() that keeps the content
bufReset_Keeps(content) == content

\* buf.Reset()
bufReset(content) == ""

\* buf.WriteString(s)
bufWrite(content, s) == content \o s

\* what a render writes before it asks for the text of its nested receiver
Before(rc) ==
    IF MethodOf(rc) = "wrapped" THEN JoinMsgs(PoolErrors[rc.a].msgs) ELSE ""

\* what a render writes after the text of its nested receiver
After(rc) ==
    IF MethodOf(rc) = "withFields"
    THEN _lineSeparator \o "error fields:" \o FieldLines(PoolErrors[rc.a].Fields)
    ELSE ""

\* the receiver whose Error() a render calls
Nested(rc) ==
    IF MethodOf(rc) = "withFields" THEN Receiver(rc.a, "fundamental")
    ELSE Receiver(PoolErrors[rc.a].cause, "self")

InitPool ==
    /\ InitFerrors
    /\ InitFlog
    /\ InitSentry
    /\ IdleRace
    /\ IdleHttp
    /\ IdleGcp
    /\ IdleConfig
    /\ renders = [t \in Renderers |-> NotRendering]
    /\ bufs = << >>
    /\ pool = { }

\* a task calls err.Error()
CallError(t) ==
    \E a \in DOMAIN PoolErrors :
        /\ renders[t] = NotRendering
        /\ renders' = [renders EXCEPT ![t] =
               [frames |-> << Frame(Resolve(Receiver(a, "self")), "get", Nil) >>,
                err |-> a, result |-> << >>]]
        /\ UNCHANGED << ferrorsVars, last, flogVars, sentryVars, raceVars, httpVars, gcpVars, cfgVars, bufs, pool >>

\* buf := _buffer.Get(); buf.Reset(); then the writes up to the nested
\* Error() call, or all of them in fundamental.Error()
GetBuffer(t) ==
    LET frames == renders[t].frames
        top == frames[Len(frames)]
    IN  /\ frames # << >>
        /\ top.pc = "get"
        /\ \E b \in pool \cup { Len(bufs) + 1 } :
               LET old == IF b \in DOMAIN bufs THEN bufs[b] ELSE ""
                   set(content) == IF b \in DOMAIN bufs THEN [bufs EXCEPT ![b] = content]
                                   ELSE Append(bufs, content)
               IN  /\ pool' = pool \ { b }
                   /\ IF MethodOf(top.rc) = "fundamental"
                      THEN /\ bufs' = set(bufWrite(bufReset(old), fundamentalError(FundOf(top.rc))))
                           /\ renders' = [renders EXCEPT ![t].frames[Len(frames)] =
                                              Frame(top.rc, "put", b)]
                      ELSE /\ bufs' = set(bufWrite(bufReset(old), Before(top.rc)))
                           /\ renders' = [renders EXCEPT ![t].frames =
                                  Append([frames EXCEPT ![Len(frames)] = Frame(top.rc, "wait", b)],
                                         Frame(Resolve(Nested(top.rc)), "get", Nil))]
        /\ UNCHANGED << ferrorsVars, last, flogVars, sentryVars, raceVars, httpVars, gcpVars, cfgVars >>

\* s := buf.String(); _buffer.Put(buf); return s.  The caller, a render
\* waiting for s, writes s and the rest of its text, or the task has its
\* result.
PutBuffer(t) ==
    LET frames == renders[t].frames
        top == frames[Len(frames)]
        s == bufs[top.buf]
    IN  /\ frames # << >>
        /\ top.pc = "put"
        /\ pool' = pool \cup { top.buf }
        /\ IF Len(frames) = 1
           THEN /\ renders' = [renders EXCEPT ![t].frames = << >>, ![t].result = << s >>]
                /\ UNCHANGED bufs
           ELSE LET outer == frames[Len(frames) - 1]
                IN  /\ bufs' = [bufs EXCEPT ![outer.buf] =
                                    bufWrite(bufWrite(@, s), After(outer.rc))]
                    /\ renders' = [renders EXCEPT ![t].frames =
                           [SubSeq(frames, 1, Len(frames) - 1) EXCEPT ![Len(frames) - 1] =
                               Frame(outer.rc, "put", outer.buf)]]
        /\ UNCHANGED << ferrorsVars, last, flogVars, sentryVars, raceVars, httpVars, gcpVars, cfgVars >>

NextPool ==
    \/ \E t \in Renderers : CallError(t)
    \/ \E t \in Renderers : GetBuffer(t)
    \/ \E t \in Renderers : PutBuffer(t)

SpecPool == InitPool /\ [][NextPool]_vars

(***************************************************************************)
(* The request logger of package httpmw.  WithLogger wraps the server's    *)
(* ResponseWriter in a responseWriter, runs the next handler on it and     *)
(* writes one log entry.  The handler is the environment: it calls         *)
(* WriteHeader and Write on the writer it was given, in any order, and     *)
(* returns.  responseWriter defines WriteHeader only; Write is the method  *)
(* of the embedded ResponseWriter.                                         *)
(***************************************************************************)
MaxHandlerCalls == 3

MaxRequests == 2

\* the status codes a handler sends
StatusCodes == { StatusOK, StatusNotFound, StatusInternalServerError }

\* method and RequestURI of the requests served
Requests == { << "GET", "/a" >>, << "POST", "/b" >> }

\* http.StatusText
StatusText(code) ==
    IF code = StatusOK THEN "OK"
    ELSE IF code = StatusNotFound THEN "Not Found"
    ELSE IF code = StatusInternalServerError THEN "Internal Server Error"
    ELSE ""

\* WriteHeader of the server's ResponseWriter: the first status is sent, a
\* later call is superfluous
underWriteHeader(u, code) ==
    [u EXCEPT !.calls = Append(@, code),
              !.status = IF @ = 0 THEN code ELSE @]

\* the server sends StatusOK when the body is written, or the handler
\* returns, and no header was written
underImplicit(u) == [u EXCEPT !.status = IF @ = 0 THEN StatusOK ELSE @]

\* Write of the server's ResponseWriter
underWrite(u) == [underImplicit(u) EXCEPT !.body = TRUE]

\* responseWriter.WriteHeader without the wroteHeader test
WriteHeader_LastWins(w, u, code) ==
    [rw |-> [status |-> code, wroteHeader |-> TRUE], under |-> underWriteHeader(u, code)]

\* responseWriter.WriteHeader
WriteHeader(w, u, code) ==
    IF w.wroteHeader THEN [rw |-> w, under |-> u]
    ELSE [rw |-> [status |-> code, wroteHeader |-> TRUE],
          under |-> underWriteHeader(u, code)]

\* a log entry: level, message and the Status of the HTTPPayload
Entry(level, message, status) == [level |-> level, message |-> message, status |-> status]

\* the entry WithLogger writes once next.ServeHTTP has returned
LogEntry(r, w) ==
    Entry(IF w.status >= StatusBadRequest THEN "error" ELSE "info",
          r.method \o " " \o r.uri \o " " \o StatusText(w.status),
          w.status)

\* the server calls the handler WithLogger returned
ServeHTTP ==
    \E r \in Requests :
        /\ req.phase # "handling"
        /\ Len(entries) < MaxRequests
        /\ req' = [phase |-> "handling", method |-> r[1], uri |-> r[2],
                   headers |-> << >>, ops |-> 0]
        /\ rw' = NewResponseWriter
        /\ under' = NewUnderlying
        /\ UNCHANGED << ferrorsVars, last, flogVars, sentryVars, raceVars, poolVars, gcpVars, cfgVars, entries >>

\* next calls w.WriteHeader(code)
HandlerWriteHeader ==
    \E code \in StatusCodes :
        LET after == WriteHeader(rw, under, code)
        IN  /\ req.phase = "handling"
            /\ req.ops < MaxHandlerCalls
            /\ req' = [req EXCEPT !.headers = Append(@, code), !.ops = @ + 1]
            /\ rw' = after.rw
            /\ under' = after.under
            /\ UNCHANGED << ferrorsVars, last, flogVars, sentryVars, raceVars, poolVars, gcpVars, cfgVars, entries >>

\* next calls w.Write(body): the promoted method of the embedded ResponseWriter
HandlerWrite ==
    /\ req.phase = "handling"
    /\ req.ops < MaxHandlerCalls
    /\ req' = [req EXCEPT !.ops = @ + 1]
    /\ under' = underWrite(under)
    /\ UNCHANGED << ferrorsVars, last, flogVars, sentryVars, raceVars, poolVars, gcpVars, cfgVars, rw, entries >>

\* next returns: WithLogger builds the payload and the message and logs
\* them, and the server finishes the response
HandlerReturn ==
    /\ req.phase = "handling"
    /\ req' = [req EXCEPT !.phase = "done"]
    /\ entries' = Append(entries, LogEntry(req, rw))
    /\ under' = underImplicit(under)
    /\ UNCHANGED << ferrorsVars, last, flogVars, sentryVars, raceVars, poolVars, gcpVars, cfgVars, rw >>

NextHttp ==
    \/ ServeHTTP
    \/ HandlerWriteHeader
    \/ HandlerWrite
    \/ HandlerReturn

SpecHttp == Init /\ [][NextHttp]_vars

(***************************************************************************)
(* Package gcp: access tokens.  The environment of a call is whether the   *)
(* default credentials are found and whether their token source yields a   *)
(* token.                                                                  *)
(***************************************************************************)
MaxTokenCalls == 2

\* an oauth2.Token
Token(access, type) == [AccessToken |-> access, TokenType |-> type]

\* what google.FindDefaultCredentials and TokenSource.Token do in a call: the
\* credentials are found or not, the token source fails or yields a token
TokenEnvs ==
    [creds : BOOLEAN,
     token : { << >>, << Token("ya29.a", "Bearer") >>, << Token("ya29.b", "Bearer") >> }]

\* what a token function returns: a token struct, a string, an error
TokenReturn(token, value, err) == [token |-> token, value |-> value, err |-> err]

GetTokenStruct(env) ==
    IF ~env.creds
    THEN TokenReturn(<< >>, "", << "could not find default credentials" >>)
    ELSE IF env.token = << >>
    THEN TokenReturn(<< >>, "", << "token source failed" >>)
    ELSE TokenReturn(env.token, "", << >>)

GetAccessToken(env) ==
    LET r == GetTokenStruct(env)
    IN  IF r.err # << >> THEN TokenReturn(<< >>, "", << >>)
        ELSE TokenReturn(<< >>, r.token[1].AccessToken, << >>)

GenHTTPHeader(env) ==
    LET r == GetTokenStruct(env)
    IN  IF r.err # << >> THEN TokenReturn(<< >>, "", r.err)
        ELSE TokenReturn(<< >>, r.token[1].TokenType \o " " \o r.token[1].AccessToken, r.err)

TokenCall(f, env, ret) == [fn |-> f, env |-> env, ret |-> ret]

CallToken(f, env, ret) ==
    /\ Len(tokenCalls) < MaxTokenCalls
    /\ tokenCalls' = Append(tokenCalls, TokenCall(f, env, ret))
    /\ UNCHANGED << ferrorsVars, last, flogVars, sentryVars, raceVars, poolVars, httpVars, cfgVars >>

CallGetTokenStruct == \E env \in TokenEnvs : CallToken("GetTokenStruct", env, GetTokenStruct(env))

CallGetAccessToken == \E env \in TokenEnvs : CallToken("GetAccessToken", env, GetAccessToken(env))

CallGenHTTPHeader == \E env \in TokenEnvs : CallToken("GenHTTPHeader", env, GenHTTPHeader(env))

NextGcp ==
    \/ CallGetTokenStruct
    \/ CallGetAccessToken
    \/ CallGenHTTPHeader

SpecGcp == Init /\ [][NextGcp]_vars

(***************************************************************************)
(* Package fconfig: loadConfig.  The file is the sequence of its string    *)
(* values; Unmarshal runs the decode hook on each of them in turn, going   *)
(* on after a value whose hook returned an error, and loadConfig returns   *)
(* through its deferred function.  Clients are numbered in the order of    *)
(* their creation.                                                         *)
(***************************************************************************)
MaxValues == 3

\* string values of a config file: a plain value, a secret with a well-formed
\* path, a secret with a path GetSecret rejects
ConfigValues == { "debug", "gSecret://projects/p/secrets/db", "gSecret://db" }

ConfigFiles == UNION { [1 .. n -> ConfigValues] : n \in 0 .. MaxValues }

\* the literal prefix of secretRegex, which then asks for one more character
secretRegex == "gSecret://"

\* secretRegex.MatchString
MatchString(val) ==
    /\ Len(val) > Len(secretRegex)
    /\ SubSeq(val, 1, Len(secretRegex)) = secretRegex

\* secretClient.getSecret: the Path submatch
PathOf(val) == SubSeq(val, Len(secretRegex) + 1, Len(val))

\* len(strings.Split(name, "/"))
RECURSIVE SplitLen(_)
SplitLen(name) ==
    IF name = "" THEN 1
    ELSE (IF SubSeq(name, 1, 1) = "/" THEN 1 ELSE 0) + SplitLen(SubSeq(name, 2, Len(name)))

minSecretPathLength == 4

\* SecretClient.GetSecret: a short path is an error, otherwise the secret
\* manager answers or fails
GetSecret(name, answers) ==
    IF SplitLen(name) < minSecretPathLength
    THEN [secret |-> "", err |-> << "secret name is not in expected format" >>]
    ELSE IF answers THEN [secret |-> "s3cret", err |-> << >>]
    ELSE [secret |-> "", err |-> << "unable to access secret" >>]

\* a secret-manager client
Client(closed) == [closed |-> closed]

\* loadConfig(file, config) up to Unmarshal: ReadInConfig fails and
\* loadConfig returns its error, or the values are about to be decoded
CallLoadConfig ==
    \E file \in ConfigFiles, readable \in BOOLEAN :
        /\ cfg.phase = "idle"
        /\ cfg' = IF readable
                  THEN [NotLoading EXCEPT !.phase = "decoding", !.file = file]
                  ELSE [NotLoading EXCEPT !.phase = "returned", !.file = file,
                                          !.errs = << "config file not found" >>]
        /\ UNCHANGED << ferrorsVars, last, flogVars, sentryVars, raceVars, poolVars, httpVars, gcpVars, clients >>

\* the hook of decodeGSecret on the next value.  sc is the parameter of
\* decodeGSecret, which the hook has captured; the assignment to it does not
\* reach the variable sc of loadConfig.  NewSecretClient succeeds or fails.
decodeGSecret ==
    \E created \in BOOLEAN, answers \in BOOLEAN :
        LET val == cfg.file[cfg.next]
            make == MatchString(val) /\ cfg.hookSc = Nil
            sc == IF make /\ created THEN Len(clients) + 1 ELSE cfg.hookSc
            got == GetSecret(PathOf(val), answers)
        IN  /\ cfg.phase = "decoding"
            /\ cfg.next <= Len(cfg.file)
            /\ clients' = IF make /\ created THEN Append(clients, Client(FALSE)) ELSE clients
            /\ cfg' = [cfg EXCEPT
                   !.next = @ + 1,
                   !.hookSc = sc,
                   !.decoded = Append(@, IF ~MatchString(val) THEN val
                                         ELSE IF sc = Nil THEN ""
                                         ELSE IF got.err # << >> THEN val
                                         ELSE got.secret),
                   !.errs = IF ~MatchString(val) THEN @
                            ELSE IF sc = Nil
                            THEN Append(@, "unable to create secret manager client")
                            ELSE @ \o got.err]
            /\ UNCHANGED << ferrorsVars, last, flogVars, sentryVars, raceVars, poolVars, httpVars, gcpVars >>

\* Unmarshal returns; the deferred function closes loadConfig's sc if it is
\* not nil
ReturnLoadConfig ==
    /\ cfg.phase = "decoding"
    /\ cfg.next > Len(cfg.file)
    /\ cfg' = [cfg EXCEPT !.phase = "returned"]
    /\ clients' = IF cfg.sc # Nil THEN [clients EXCEPT ![cfg.sc] = Client(TRUE)] ELSE clients
    /\ UNCHANGED << ferrorsVars, last, flogVars, sentryVars, raceVars, poolVars, httpVars, gcpVars >>

NextConfig ==
    \/ CallLoadConfig
    \/ decodeGSecret
    \/ ReturnLoadConfig

SpecConfig == Init /\ [][NextConfig]_vars

(***************************************************************************)
(* Properties.                                                             *)
(***************************************************************************)
WrapOps == { "WithStack", "Wrap", "Wrapf" }

Wrappeds == { a \in Addrs : IsWrapped(heap, a) }

Roots == { a \in Addrs : IsRoot(heap, a) }

\* the details of a given type in a status
DetailsOfType(st, type) == { i \in 1 .. Len(st.details) : st.details[i].type = type }

\* C1: a wrapped error whose cause is a root-cause error created with code c
\* has Code(w) = c, whatever the number of wraps.
C1_CodeSurvivesWrapping ==
    \A w \in Wrappeds :
        (IsRoot(heap, heap[w].cause)
             /\ Fund(heap, heap[w].cause).ErrorCode \in ErrorCodes)
            => Code(heap, w) = Fund(heap, heap[w].cause).ErrorCode

\* C2: a value returned by k calls of Wrap/Wrapf and j calls of WithStack is
\* one wrapped value with exactly k messages and k + j stacks whose cause is
\* not a wrapped value; a wrapping call on a wrapped value returns that value.
C2_WrapsAccumulate ==
    /\ \A w \in Wrappeds :
           /\ Len(heap[w].msgs) = applied[w].wraps
           /\ Len(heap[w].stacks) = applied[w].wraps + applied[w].stacks
           /\ heap[w].cause # Nil
           /\ ~IsWrapped(heap, heap[w].cause)
    /\ \A a \in Addrs \ Wrappeds : applied[a] = NoCalls
    /\ (last.op \in WrapOps /\ last.err # Nil)
           => /\ IsWrapped(heap, last.ret)
              /\ IsWrapped(heap, last.err) => last.ret = last.err

C2_Witness ==
    \E w \in Wrappeds :
        /\ applied[w].wraps = 1
        /\ applied[w].stacks = 1
        /\ last.err = w

\* C3: WithStack, Wrap and Wrapf of a nil error return nil, allocate nothing,
\* capture no stack and leave every existing value as it was.
C3_NilStaysNil ==
    [][ (last'.op \in WrapOps /\ last'.err = Nil)
            => (last'.ret = Nil /\ heap' = heap /\ nstacks' = nstacks
                    /\ applied' = applied) ]_vars

C3_Witness ==
    /\ last.op = "Wrap"
    /\ last.err = Nil
    /\ last.ret = Nil
    /\ Wrappeds # { }

\* C4: the value returned by a wrapping call on a non-nil error has the same
\* root (Cause) as the error wrapped; no call changes the root of any
\* existing error; Cause(nil) is nil and the Cause of an error that exposes
\* no cause is that error.
C4_CauseIsKept ==
    [][ /\ (last'.op \in WrapOps /\ last'.err # Nil)
            => Cause(heap', last'.ret) = Cause(heap, last'.err)
        /\ \A a \in Addrs : Cause(heap', a) = Cause(heap, a)
        /\ Cause(heap', Nil) = Nil
        /\ \A a \in 1 .. Len(heap') :
               (IsRoot(heap', a) \/ (IsKind(heap', a, "foreign") /\ heap'[a].cause = Nil))
                   => Cause(heap', a) = a ]_vars

C4_Witness ==
    /\ last.op = "Wrap"
    /\ IsKind(heap, last.err, "foreign")
    /\ heap[last.err].cause # Nil
    /\ IsRoot(heap, Cause(heap, last.ret))
    /\ Cause(heap, last.ret) # heap[last.ret].cause

\* C5: the status returned for a root-cause error that holds an ErrorDetail,
\* of either shape, has that detail among its details.
C5_DetailOnTheWire ==
    \A a \in Roots :
        LET r == GRPCStatus(heap, a)
            d == Fund(heap, a).Detail
        IN  (d # NilDetail /\ ~r.panic)
                => \E i \in 1 .. Len(r.st.details) : r.st.details[i] = ErrorInfo(d[1])

\* C6: the conversion of a wrapped error is the conversion of its cause: the
\* cause's own GRPCStatus for a cause of the package, a status of code Unknown
\* with the cause's text for a cause that has none; its message is the
\* cause's message, not the text that carries the accumulated messages.
C6_WrappedConvertsAsCause ==
    \A w \in Wrappeds :
        LET c == heap[w].cause
            r == GRPCStatus(heap, w)
        IN  /\ IsKind(heap, c, "fundamental") => r = fundamentalGRPCStatus(heap[c])
            /\ IsKind(heap, c, "withFields") => r = withFieldsGRPCStatus(heap[c])
            /\ IsKind(heap, c, "foreign") => r = Returned(statusNew(Unknown, heap[c].Msg))
            /\ ~r.panic
                   => /\ r.st.message = (IF IsRoot(heap, c) THEN Fund(heap, c).Msg
                                                          ELSE heap[c].Msg)
                      /\ heap[w].msgs # << >> => r.st.message # Error(heap, w)

C6_Witness ==
    \E w \in Wrappeds :
        /\ Len(heap[w].msgs) = 2
        /\ IsKind(heap, heap[w].cause, "withFields")
        /\ Len(heap[heap[w].cause].Fields) = 2
        /\ ~GRPCStatus(heap, w).panic
        /\ Len(GRPCStatus(heap, w).st.details) = 1

\* what C7 and C8 say of the status of a root-cause error: the status has the
\* error's code and exactly one detail of the given type, whose violations
\* are the given ones
HasOneViolationsDetail(r, code, type, violations) ==
    /\ r.st.code = code
    /\ Cardinality(DetailsOfType(r.st, type)) = 1
    /\ \A i \in DetailsOfType(r.st, type) : r.st.details[i].violations = violations

\* the violations C7 expects, written out: field = Name, description = Description
ExpectedFieldViolations(fields) ==
    [i \in 1 .. Len(fields) |->
        [Field |-> fields[i].Name, Description |-> fields[i].Description]]

\* the fields of a root-cause error: a fundamental has none
FieldsOf(h, a) == IF h[a].kind = "withFields" THEN h[a].Fields ELSE << >>

C8_PreconditionFailure ==
    \A a \in Roots :
        LET r == GRPCStatus(heap, a)
        IN  (Fund(heap, a).ErrorCode = FailedPrecondition /\ ~r.panic)
                => HasOneViolationsDetail(r, FailedPrecondition, "PreconditionFailure",
                       [i \in 1 .. Len(FieldsOf(heap, a)) |->
                           [Subject |-> FieldsOf(heap, a)[i].Name,
                            Description |-> FieldsOf(heap, a)[i].Description]])

\* C9: a root-cause error without detail whose code is neither
\* InvalidArgument nor FailedPrecondition converts to its code and message
\* with no details, with or without fields.
C9_NoDetailsOtherwise ==
    \A a \in Roots :
        (/\ Fund(heap, a).Detail = NilDetail
         /\ Fund(heap, a).ErrorCode \notin { InvalidArgument, FailedPrecondition })
            => GRPCStatus(heap, a) =
                   Returned([code |-> Fund(heap, a).ErrorCode,
                             message |-> Fund(heap, a).Msg,
                             details |-> << >>])

C9_Witness ==
    \E a \in Roots :
        /\ IsKind(heap, a, "withFields")
        /\ Len(heap[a].Fields) = 2
        /\ Fund(heap, a).ErrorCode = OutOfRange
        /\ Fund(heap, a).Detail = NilDetail
        /\ GRPCStatus(heap, a).st.details = << >>

\* the construction table: the code each constructor gives
TableCode(call) ==
    CASE call.op \in { "New", "Newf" } -> Unknown
      [] call.op = "WithCode" -> call.args.code
      [] call.op = "NewInvalidArgumentError" -> InvalidArgument
      [] call.op = "NewAlreadyExistsError" -> AlreadyExists
      [] call.op = "NewOutOfRangeError" -> OutOfRange
      [] call.op = "NewPermissionDeniedError" -> PermissionDenied
      [] call.op = "NewUnauthenticatedError" -> Unauthenticated
      [] call.op = "NewNotFoundError" -> NotFound
      [] call.op = "NewInternalError" -> Internal

\* the message each call supplies: the formatted text for Newf
TableMessage(call) ==
    IF call.op = "Newf"
    THEN (IF call.args.args = << >> THEN "boom" ELSE "id=7")
    ELSE call.args.message

Constructors ==
    { "New", "Newf", "WithCode", "NewInvalidArgumentError", "NewAlreadyExistsError",
      "NewOutOfRangeError", "NewPermissionDeniedError", "NewUnauthenticatedError",
      "NewNotFoundError", "NewInternalError" }

\* C10: the value a constructor returns is a root-cause error with the code of
\* the construction table and the message supplied, and Code returns that code.
C10_ConstructionTable ==
    last.op \in Constructors
        => /\ IsRoot(heap, last.ret)
           /\ Fund(heap, last.ret).ErrorCode = TableCode(last)
           /\ Code(heap, last.ret) = TableCode(last)
           /\ Fund(heap, last.ret).Msg = TableMessage(last)

C10_Witness ==
    /\ last.op = "WithCode"
    /\ last.args.code = Unavailable
    /\ Code(heap, last.ret) = Unavailable
    /\ Fund(heap, last.ret).Msg = "bad"

\* the text C11 expects, built from the newest message back to the oldest
RECURSIVE MessagesThenText(_, _)
MessagesThenText(msgs, text) ==
    IF msgs = << >> THEN text
    ELSE MessagesThenText(SubSeq(msgs, 1, Len(msgs) - 1),
                          msgs[Len(msgs)] \o ": " \o text)

\* C11: Error() of a wrapped value is its messages, oldest first, each followed
\* by ": ", then the Error() of its cause, and the cause's Error() alone when
\* it has no message; a wrapping call puts its message after the ones the
\* value already holds.
C11_WrappedError ==
    /\ [](\A w \in Wrappeds :
              /\ Error(heap, w) = MessagesThenText(heap[w].msgs, Error(heap, heap[w].cause))
              /\ heap[w].msgs = << >> => Error(heap, w) = Error(heap, heap[w].cause))
    /\ [][ \A w \in Wrappeds :
               /\ SubSeq(heap'[w].msgs, 1, Len(heap[w].msgs)) = heap[w].msgs
               /\ (last'.op = "Wrap" /\ last'.ret = w)
                      => Error(heap', w) =
                             MessagesThenText(heap[w].msgs,
                                 "ctx: " \o Error(heap, heap[w].cause)) ]_vars

C11_Witness ==
    \E w \in Wrappeds :
        /\ Len(heap[w].msgs) = 2
        /\ heap[w].msgs[1] # heap[w].msgs[2]
        /\ IsKind(heap, heap[w].cause, "withFields")
        /\ last.op = "Wrap"
        /\ last.ret = w

\* the lines C12 expects for the fields, built from the last field back
RECURSIVE TextThenFields(_, _)
TextThenFields(fields, text) ==
    IF fields = << >> THEN text
    ELSE TextThenFields(SubSeq(fields, 1, Len(fields) - 1),
             "\n\t-  " \o fields[Len(fields)].Name \o ": "
                 \o fields[Len(fields)].Description \o text)

\* the rendering "(<CodeName>) <message>" of a fundamental, with its detail
FundamentalText(f) ==
    "(" \o CodeString(f.ErrorCode) \o ") " \o f.Msg
        \o (IF f.Detail = NilDetail THEN ""
            ELSE "\n-  " \o "reason:\"" \o f.Detail[1].Reason
                     \o "\" domain:\"" \o f.Detail[1].Domain \o "\"")

\* C12: Error() of a withFields error is the rendering of its fundamental,
\* then, when it has fields, the line "error fields:" and one line
\* "<name>: <description>" per field supplied, in the order supplied, a field
\* supplied twice being listed twice.
C12_WithFieldsError ==
    \A a \in Roots :
        IsKind(heap, a, "withFields")
            => Error(heap, a) =
                   FundamentalText(heap[a].fundamental)
                       \o (IF heap[a].Fields = << >> THEN ""
                           ELSE "\n-  error fields:" \o TextThenFields(heap[a].Fields, ""))

C12_Witness ==
    \E a \in Roots :
        /\ IsKind(heap, a, "withFields")
        /\ Len(heap[a].Fields) = 2
        /\ heap[a].Fields[1] = heap[a].Fields[2]
        /\ Error(heap, a) =
               "(OutOfRange) bad\n-  error fields:\n\t-  age: must be positive\n\t-  age: must be positive"

\* C13: Code returns Unknown for nil and for every error of another package.
C13_CodeOfForeign ==
    /\ Code(heap, Nil) = Unknown
    /\ \A a \in Addrs : IsKind(heap, a, "foreign") => Code(heap, a) = Unknown

C13_Witness ==
    \E a \in Addrs :
        /\ IsKind(heap, a, "foreign")
        /\ IsRoot(heap, heap[a].cause)
        /\ Fund(heap, heap[a].cause).ErrorCode = NotFound
        /\ Code(heap, a) = Unknown

\* C14: the detail slot holds one detail. Right after a WithDetail call the
\* error holds the detail of that call (none when nil was passed) and the call
\* returned the value it was made on; the call changes nothing else, neither
\* code, message, fields nor stack, nor any other value. Right after WithCode
\* the error holds the first of the details passed, or none.
C14_SingleDetailSlot ==
    /\ [](last.op = "WithDetail"
              => /\ last.ret = last.err
                 /\ Fund(heap, last.ret).Detail = last.args.detail)
    /\ [](last.op = "WithCode"
              => Fund(heap, last.ret).Detail =
                     IF last.args.detail = << >> THEN NilDetail
                     ELSE last.args.detail[1])
    /\ [][ last'.op = "WithDetail"
               => /\ DOMAIN heap' = DOMAIN heap
                  /\ \A a \in Addrs :
                         IF a = last'.err
                         THEN /\ heap'[a].kind = heap[a].kind
                              /\ [Fund(heap', a) EXCEPT !.Detail = NilDetail]
                                     = [Fund(heap, a) EXCEPT !.Detail = NilDetail]
                              /\ FieldsOf(heap', a) = FieldsOf(heap, a)
                         ELSE heap'[a] = heap[a] ]_vars

C14_Witness ==
    /\ last.op = "WithDetail"
    /\ last.args.detail = NilDetail
    /\ IsKind(heap, last.ret, "withFields")
    /\ Fund(heap, last.ret).ErrorCode = AlreadyExists
    /\ Fund(heap, last.ret).Detail = NilDetail
    /\ Len(heap[last.ret].Fields) = 2
    /\ \E w \in Wrappeds : heap[w].cause = last.ret

\* C15: the verbose rendering carries every stack captured for the error,
\* oldest first: the one stack of the root for an error as constructed, and,
\* for a constructed error wrapped N times, N + 1 stacks, the creation stack
\* of the root first and then the N stacks of the wrapping calls in call
\* order.  The other renderings carry the text of Error() and no stack.
C15_VerboseStacks ==
    /\ \A a \in Roots :
           Format(heap, a, "v", TRUE) = Written(Error(heap, a), << Fund(heap, a).stack >>)
    /\ \A w \in Wrappeds :
           IsRoot(heap, heap[w].cause)
               => /\ Format(heap, w, "v", TRUE).text = Error(heap, w)
                  /\ Format(heap, w, "v", TRUE).stacks =
                         << Fund(heap, heap[w].cause).stack >> \o heap[w].stacks
                  /\ Len(Format(heap, w, "v", TRUE).stacks)
                         = applied[w].wraps + applied[w].stacks + 1
    /\ \A a \in Addrs : \A verb \in { "v", "s", "q" } :
           Format(heap, a, verb, FALSE) = Written(Error(heap, a), << >>)

\* the details the conversion of a root-cause error hands to the status library
Offered(h, a) ==
    CASE h[a].kind = "fundamental" ->
             IF h[a].Detail # NilDetail THEN << ErrorInfo(h[a].Detail[1]) >> ELSE << >>
      [] h[a].kind = "withFields" /\ h[a].fundamental.ErrorCode = InvalidArgument ->
             << BadRequest(FieldViolations(h[a].Fields)) >>
      [] h[a].kind = "withFields" /\ h[a].fundamental.ErrorCode = FailedPrecondition ->
             << PreconditionFailure(Violations(h[a].Fields)) >>
      [] OTHER -> << >>

\* the library rejects a detail offered in the conversion of root cause a
LibraryRejects(h, a) ==
    \E i \in 1 .. Len(Offered(h, a)) :
        WithDetails(statusNew(Fund(h, a).ErrorCode, Fund(h, a).Msg), Offered(h, a)[i]).err

\* C16: the conversion to a wire status panics, and returns no status,
\* exactly when the status library rejects a detail handed to it in that
\* conversion; this holds for a root-cause error and for a wrapped error,
\* whose conversion is that of its cause.
C16_RejectedDetailPanics ==
    /\ \A a \in Roots :
           /\ GRPCStatus(heap, a).panic <=> LibraryRejects(heap, a)
           /\ GRPCStatus(heap, a).panic => DOMAIN GRPCStatus(heap, a) = { "panic" }
           /\ ~GRPCStatus(heap, a).panic => "st" \in DOMAIN GRPCStatus(heap, a)
    /\ \A w \in Wrappeds :
           IsRoot(heap, heap[w].cause)
               => /\ GRPCStatus(heap, w).panic <=> LibraryRejects(heap, heap[w].cause)
                  /\ GRPCStatus(heap, w).panic => DOMAIN GRPCStatus(heap, w) = { "panic" }

C16_Witness ==
    \E w \in Wrappeds :
        /\ IsKind(heap, heap[w].cause, "fundamental")
        /\ heap[heap[w].cause].Detail = DetailMalformed
        /\ heap[heap[w].cause].ErrorCode = Internal
        /\ GRPCStatus(heap, heap[w].cause) = Panicked
        /\ GRPCStatus(heap, w) = Panicked

\* C17: SugaredLogger() and Logger() return no logger and ErrNotInitialized
\* exactly when the package's sugared logger, or logger, is not set, and the
\* logger that is set with a nil error otherwise; once InitializeSructuredLogs
\* has returned both are set, to the logger that the last such call built,
\* and they stay set.
C17_LoggerAccessors ==
    /\ [](last.op = "SugaredLogger"
              => /\ (last.ret.val = Nil /\ last.ret.err = "ErrNotInitialized") <=> sugar = Nil
                 /\ sugar # Nil => last.ret = LoggerResult(sugar, "nil"))
    /\ [](last.op = "Logger"
              => /\ (last.ret.val = Nil /\ last.ret.err = "ErrNotInitialized") <=> logger = Nil
                 /\ logger # Nil => last.ret = LoggerResult(logger, "nil"))
    /\ [](IF zaps = 0 THEN sugar = Nil /\ logger = Nil
          ELSE sugar = zaps /\ logger = zaps)
    /\ [](last.op = "InitializeSructuredLogs" /\ ~last.ret.panic
              => last.ret.err = "nil" /\ sugar # Nil /\ logger # Nil)
    /\ [][ (sugar # Nil => sugar' # Nil) /\ (logger # Nil => logger' # Nil) ]_vars

C17_Witness ==
    /\ zaps = 2
    /\ fn["Verbosef"] = noopf
    /\ fn["Info"].to = "noop"
    /\ last.op = "SugaredLogger"
    /\ last.ret = LoggerResult(2, "nil")

\* C18: right after DisableLogging every logging function other than Fatal
\* and Fatalf does nothing, and Fatal and Fatalf are never bound to a
\* function that does nothing.
C18_DisableLogging ==
    /\ last.op = "DisableLogging"
           => \A f \in LogFns \ { "Fatal", "Fatalf" } :
                  /\ fn[f].to = "noop"
                  /\ Emit(fn[f], core) = Wrote(<< >>, FALSE)
    /\ fn["Fatal"].to # "noop"
    /\ fn["Fatalf"].to # "noop"

\* the function variables of the levels a config disables
Disabled(c) ==
    (IF c.Verbose THEN { } ELSE { "Verbosef", "Verbose" })
        \cup (IF c.Debug THEN { } ELSE { "Debugf", "Debug" })

\* C19: right after InitializeSructuredLogs(c) has returned, every logging
\* function variable is bound to the zap logger the call built or, when c
\* disables its level, to a function that does nothing; none is bound to a
\* standard-library logger.
C19_AllStructured ==
    (last.op = "InitializeSructuredLogs" /\ ~last.ret.panic)
        => \A f \in LogFns :
               /\ fn[f].to \notin { "log", "stdout" }
               /\ IF f \in Disabled(last.args[1])
                  THEN fn[f].to = "noop"
                  ELSE fn[f].to = "zap" /\ fn[f].id = sugar

\* the repanic setting a list of options asks for: that of the last
\* WithRepanic in the list, and true when there is none
LastRepanic(options) ==
    LET at == { i \in 1 .. Len(options) : options[i].sets = "repanic" }
    IN  IF at = { } THEN TRUE
        ELSE options[CHOOSE i \in at : \A j \in at : j <= i].b

RootCode(err) ==
    LET root == Cause(HandlerErrors, err)
    IN  IF IsRoot(HandlerErrors, root) THEN Fund(HandlerErrors, root).ErrorCode
        ELSE Unknown

\* C21: an interceptor with the default ReportOn hands the error its handler
\* returned to the hub exactly when the error is not nil and the code of its
\* root cause is Internal, Unimplemented or Unknown; an error created with
\* code NotFound is not captured, whether it arrives as created or wrapped.
C21_DefaultEscalation ==
    (last.op = "handler" /\ ~last.args.panics
        /\ icpt.opts.reportOn.fun = "withDefaultCodes")
        => /\ hub.recovered = << >>
           /\ hub.captured =
                  IF last.args.err # Nil /\ RootCode(last.args.err) \in defaultCodes
                  THEN << last.args.err >>
                  ELSE << >>

\* the value the last option of a kind in a list sets, or a default
LastSet(options, sets, default) ==
    LET at == { i \in 1 .. Len(options) : options[i].sets = sets }
    IN  IF at = { } THEN default
        ELSE options[CHOOSE i \in at : \A j \in at : j <= i]

ConfiguredReportOn(options) ==
    LastSet(options, "reportOn", WithReportOn(ReportOnFn("withDefaultCodes", { }))).r

ConfiguredRelog(options) == LastSet(options, "relog", WithRelog(FALSE)).b

\* the predicate a ReportOn of the package is, on the code Code gives an error
Holds(f, err) ==
    /\ err # Nil
    /\ \/ f.fun = "ReportAlways"
       \/ f.fun = "withDefaultCodes" /\ Code(HandlerErrors, err) \in { Internal, Unimplemented, Unknown }
       \/ f.fun = "ReportOnCodes" /\ Code(HandlerErrors, err) \in f.codes

\* C26 as claimed: for every option setting, when the handler returns the
\* interceptor returns the handler's response and error unchanged.
C26_Original ==
    (last.op = "handler" /\ ~last.args.panics)
        => rpc = Replied(last.args.res, last.args.err)

\* C26: when the handler returns and the ReportOn configured, that of the
\* last WithReportOn or else the default, is not nil, the unary and the
\* stream interceptor return the handler's response and error unchanged, hand
\* the error to the hub exactly when the ReportOn holds for it, never when it
\* is nil, and log it again exactly when it is reported and the relog option,
\* that of the last WithRelog or else false, is true; a call that does not
\* log again leaves the log alone.  With a nil ReportOn the call of it
\* panics: the panic is handed to the hub and, by the repanic option, raised
\* again or replaced by nil results.
C26_HandlerReturns ==
    /\ [](last.op = "handler" /\ ~last.args.panics
              => LET f == ConfiguredReportOn(icpt.options)
                     err == last.args.err
                 IN  IF f # NilReportOn
                     THEN /\ rpc = Replied(last.args.res, err)
                          /\ hub.recovered = << >>
                          /\ hub.captured = IF Holds(f, err) THEN << err >> ELSE << >>
                          /\ last.ret.relogged
                                 <=> (Holds(f, err) /\ ConfiguredRelog(icpt.options))
                     ELSE /\ hub = Events(NilCall, << >>)
                          /\ rpc = IF LastRepanic(icpt.options) THEN Repanicked(NilCall)
                                   ELSE Replied(<< >>, Nil)
                          /\ ~last.ret.relogged)
    /\ [][ last'.op = "handler"
               => out' = IF last'.ret.relogged THEN Emit(fn["Errorf"], core) ELSE out ]_vars

C26_Witness ==
    /\ icpt.kind = "unary"
    /\ icpt.options = << WithRelog(TRUE), WithReportOn(ReportOnFn("ReportOnCodes", { NotFound })) >>
    /\ last.op = "handler"
    /\ last.args = HandlerReturns(<< >>, 1)
    /\ last.ret.relogged
    /\ hub = Events(<< >>, << 1 >>)
    /\ rpc = Replied(<< >>, 1)
    /\ out = Wrote(<< "stderr" >>, FALSE)

\* C24: a wrapping call on an error that is not nil changes no value that is
\* not a wrapped value, so the error wrapped keeps its code, message, detail,
\* fields and stack.  On an error that is not a wrapped value it returns a
\* value that did not exist before, whose cause is that error, and changes no
\* value at all; on a wrapped value it returns that same value, which now
\* holds one more stack and, for Wrap and Wrapf, one more message, after the
\* ones it held, and has the cause it had.
C24_WrapsLeaveTheCause ==
    [][ (last'.op \in WrapOps /\ last'.err # Nil)
            => LET e == last'.err
               IN  /\ \A a \in Addrs : ~IsWrapped(heap, a) => heap'[a] = heap[a]
                   /\ IF IsWrapped(heap, e)
                      THEN /\ last'.ret = e
                           /\ DOMAIN heap' = DOMAIN heap
                           /\ heap'[e].cause = heap[e].cause
                           /\ heap'[e].stacks = Append(heap[e].stacks, nstacks + 1)
                           /\ Len(heap'[e].msgs) =
                                  Len(heap[e].msgs) + (IF last'.op = "WithStack" THEN 0 ELSE 1)
                           /\ SubSeq(heap'[e].msgs, 1, Len(heap[e].msgs)) = heap[e].msgs
                      ELSE /\ last'.ret \notin Addrs
                           /\ last'.ret \in DOMAIN heap'
                           /\ IsWrapped(heap', last'.ret)
                           /\ heap'[last'.ret].cause = e
                           /\ \A a \in Addrs : heap'[a] = heap[a] ]_vars

C24_Witness ==
    /\ last.op = "Wrapf"
    /\ last.err # Nil
    /\ last.ret = last.err
    /\ Len(heap[last.ret].stacks) = 2
    /\ heap[last.ret].msgs = << "ctx", "id=7" >>
    /\ IsKind(heap, heap[last.ret].cause, "withFields")
    /\ Fund(heap, heap[last.ret].cause).Detail = DetailEmail
    /\ Len(heap[heap[last.ret].cause].Fields) = 2

\* C25: every wrapped value has a cause that is not nil and not a wrapped
\* value, at least one stack and at least as many stacks as messages, and no
\* step takes a stack or a message away from a wrapped value.
C25_WrappedInvariant ==
    /\ [](\A w \in Wrappeds :
              /\ heap[w].cause # Nil
              /\ heap[w].cause \in Addrs
              /\ ~IsWrapped(heap, heap[w].cause)
              /\ Len(heap[w].stacks) >= 1
              /\ Len(heap[w].stacks) >= Len(heap[w].msgs))
    /\ [][ \A w \in Wrappeds :
               /\ IsWrapped(heap', w)
               /\ Len(heap'[w].stacks) >= Len(heap[w].stacks)
               /\ Len(heap'[w].msgs) >= Len(heap[w].msgs) ]_vars

C25_Witness ==
    \E w \in Wrappeds :
        /\ Len(heap[w].stacks) = 2
        /\ Len(heap[w].msgs) = 1
        /\ last.op = "WithStack"
        /\ last.ret = w
        /\ IsKind(heap, heap[w].cause, "foreign")

AllReturned == \A t \in Tasks : tasks[t].pc = "done"

\* C22: the package takes no lock.  When every concurrent Wrap on a shared
\* wrapped value has returned and the caller serialized the calls, the value
\* holds one message per Wrap that returned it, the message of every task
\* among them, and one stack per wrapping call; without serialization it
\* holds at least one and at most that many, so updates can be lost.
C22_SerializedWrapsKeepAll ==
    /\ ~serialize => lock = Nil
    /\ AllReturned
           => LET w == heap[SharedErr]
              IN  /\ applied[SharedErr].wraps + applied[SharedErr].stacks = 1 + MaxTasks
                  /\ Len(w.msgs) <= applied[SharedErr].wraps
                  /\ Len(w.stacks) <= 1 + MaxTasks
                  /\ Len(w.stacks) >= 2
                  /\ serialize
                         => /\ Len(w.msgs) = applied[SharedErr].wraps
                            /\ Len(w.stacks) = 1 + MaxTasks
                            /\ \A t \in Tasks : \E i \in DOMAIN w.msgs : w.msgs[i] = TaskMsg(t)
                            /\ \A i, j \in DOMAIN w.stacks : w.stacks[i] = w.stacks[j] => i = j

\* a lost update: both calls have returned and a message and a stack are gone
C22_Witness ==
    /\ ~serialize
    /\ AllReturned
    /\ applied[SharedErr].wraps = 3
    /\ Len(heap[SharedErr].msgs) < 3
    /\ Len(heap[SharedErr].stacks) < 3

\* the buffers the Error() calls in progress hold, one entry per call
HeldBy(t) ==
    { << t, i >> : i \in { j \in DOMAIN renders[t].frames : renders[t].frames[j].buf # Nil } }

Holders == UNION { HeldBy(t) : t \in Renderers }

BufOf(h) == renders[h[1]].frames[h[2]].buf

\* C23: under every interleaving of concurrent Error() calls, a call that
\* has returned returned the rendering of its own error and holds no buffer;
\* no buffer is held by two calls at once, a nested call holding a buffer
\* other than those of the calls around it, and no buffer held is in the
\* pool; once every call has returned, every buffer allocated is in the pool.
C23_PooledBuffers ==
    /\ \A t \in Renderers :
           renders[t].result # << >>
               => /\ renders[t].result = << Error(PoolErrors, renders[t].err) >>
                  /\ renders[t].frames = << >>
    /\ \A g, h \in Holders : BufOf(g) = BufOf(h) => g = h
    /\ \A h \in Holders : BufOf(h) \in DOMAIN bufs /\ BufOf(h) \notin pool
    /\ pool \subseteq DOMAIN bufs
    /\ Holders = { } => pool = DOMAIN bufs

C23_Witness ==
    /\ renders[1].err = 3
    /\ renders[1].result = << Error(PoolErrors, 3) >>
    /\ Len(renders[1].result[1]) > Len("ctx: (InvalidArgument) bad")
    /\ renders[2].err = 1
    /\ Len(renders[2].frames) = 1
    /\ renders[2].frames[1].pc = "put"
    /\ bufs[renders[2].frames[1].buf] = Error(PoolErrors, 1)
    /\ Len(bufs) = 3

\* C27: when a request has been served, the entry written for it has the
\* status that was sent to the client and is at error level exactly when
\* that status is 400 or above; one entry is written per request served.
C27_LoggedStatusIsSent ==
    /\ [](req.phase = "done"
              => /\ entries # << >>
                 /\ entries[Len(entries)].status = under.status
                 /\ entries[Len(entries)].level = "error" <=> under.status >= StatusBadRequest)
    /\ [][req'.phase = "done" /\ req.phase = "handling" <=> Len(entries') = Len(entries) + 1]_vars

\* C28: once the handler has called WriteHeader, the captured status is the
\* code of its first call and the ResponseWriter underneath has received
\* WriteHeader once, with that code; a call after the first changes neither.
C28_FirstWriteHeaderWins ==
    /\ [](req.headers # << >>
              => /\ rw = [status |-> req.headers[1], wroteHeader |-> TRUE]
                 /\ under.calls = << req.headers[1] >>)
    /\ [][Len(req.headers) >= 1 /\ Len(req'.headers) > Len(req.headers)
              => rw' = rw /\ under' = under]_vars

C28_Witness ==
    /\ req.headers = << StatusNotFound, StatusOK, StatusInternalServerError >>
    /\ rw.status = StatusNotFound
    /\ under.status = StatusNotFound

\* C29: a GetAccessToken call that met a failure, of the credentials lookup
\* or of the token source, returned a non-nil error, and a call that
\* returned a nil error returned the access token that was fetched.
C29_FailureIsReported ==
    \A i \in DOMAIN tokenCalls :
        LET c == tokenCalls[i]
            failed == ~c.env.creds \/ c.env.token = << >>
        IN  c.fn = "GetAccessToken"
                => /\ failed => c.ret.err # << >>
                   /\ c.ret.err = << >>
                          => ~failed /\ c.ret.value = c.env.token[1].AccessToken

\* the values matching gSecret:// among the values decoded so far
SecretsDecoded ==
    { i \in 1 .. (cfg.next - 1) : i \in DOMAIN cfg.file /\ MatchString(cfg.file[i]) }

\* C30: during a loadConfig call at most one client is created, and only
\* once a value matching gSecret:// has been decoded; when loadConfig has
\* returned, with or without an error, every client created is closed.
C30_ClientLifecycle ==
    /\ Len(clients) <= 1
    /\ clients # << >> => SecretsDecoded # { }
    /\ cfg.phase = "returned" => \A i \in DOMAIN clients : clients[i].closed

====
